---- MODULE Spec2Model ----
(***************************************************************************)
(* Role-playing text adventure (vladimirlopez/rolegame): the streaming     *)
(* decoder of the Ollama service, the response parser, the game store and  *)
(* the message hook that drives one generation at a time.                  *)
(*                                                                         *)
(* Text is a TLA+ string; a character is a string of length 1.  The model  *)
(* is restricted to ASCII text, for which TextDecoder.decode(value,        *)
(* {stream: true}) returns the characters of the bytes it is given.        *)
(***************************************************************************)
EXTENDS Integers, Sequences, FiniteSets, TLC

VARIABLES
    \* ---- one decoder fed by a transport that fragments arbitrarily ----
    wire,       \* transport text not yet delivered by reader.read()
    sent,       \* history: the whole text the transport carries
    items,      \* history: the spans the transport text was built from
    dec,        \* generateResponseStream's locals: buffer, brackets, ...
    yielded,    \* history: the messages yielded to the consumer, in order
    dpc,        \* "reading" | "finished"
    \* ---- one browser session of the game ----
    store,      \* the zustand store (useGameStore)
    ui,         \* App.isPlaying and the mounted GameInterface: loading,
                \* hasInitialized.current, abortControllerRef.current
    gens,       \* every generation started so far: its request, its
                \* generator's and consumer's locals, and its history
    unload,     \* the model switch that awaits OllamaService.unloadModel
    now,        \* what Date.now() returns
    uuid,       \* the identifier crypto.randomUUID() returns next
    \* ---- the store driven through its operations ----
    last,       \* history: the operation called last and its argument
    persisted,  \* what the persist middleware wrote to storage last
    appended,   \* history: the messages passed to addMessage, in order
    recorded,   \* history: the events passed to addStoryEvent, in order
    \* ---- one call of a pure function of the parser or the hook ----
    given,      \* the argument of the call
    returned    \* <<what the call returned>>, <<>> before it returns

decVars == <<wire, sent, items, dec, yielded, dpc>>
sessVars == <<store, ui, gens, unload, now, uuid>>
memVars == <<last, persisted, appended, recorded>>
callVars == <<given, returned>>
vars == <<wire, sent, items, dec, yielded, dpc, store, ui, gens, unload, now, uuid,
          last, persisted, appended, recorded, given, returned>>

-----------------------------------------------------------------------------
(* Characters and strings *)

\* s[i] of JavaScript with a 1-based index; "" outside the string
Ch(s, i) == IF i >= 1 /\ i <= Len(s) THEN SubSeq(s, i, i) ELSE ""

\* s.substring(a, b) of JavaScript: 0-based, b exclusive
Substring(s, a, b) ==
    LET lo == IF a < 0 THEN 0 ELSE IF a > Len(s) THEN Len(s) ELSE a
        hi == IF b < 0 THEN 0 ELSE IF b > Len(s) THEN Len(s) ELSE b
    IN  IF lo >= hi THEN "" ELSE SubSeq(s, lo + 1, hi)

\* the white space String.prototype.trim and \s know, within ASCII
WhiteSpace == {" ", "\n", "\t", "\r", "\f"}

Digits == {"0", "1", "2", "3", "4", "5", "6", "7", "8", "9"}

DigitVal ==
    ("0" :> 0) @@ ("1" :> 1) @@ ("2" :> 2) @@ ("3" :> 3) @@ ("4" :> 4) @@
    ("5" :> 5) @@ ("6" :> 6) @@ ("7" :> 7) @@ ("8" :> 8) @@ ("9" :> 9)

RECURSIVE TrimStart(_)
TrimStart(s) ==
    IF Len(s) > 0 /\ Ch(s, 1) \in WhiteSpace
    THEN TrimStart(Substring(s, 1, Len(s)))
    ELSE s

RECURSIVE TrimEnd(_)
TrimEnd(s) ==
    IF Len(s) > 0 /\ Ch(s, Len(s)) \in WhiteSpace
    THEN TrimEnd(Substring(s, 0, Len(s) - 1))
    ELSE s

\* String.prototype.trim
Trim(s) == TrimEnd(TrimStart(s))

\* parseInt of a string of decimal digits
RECURSIVE ParseInt(_)
ParseInt(ds) ==
    IF ds = "" THEN 0
    ELSE 10 * ParseInt(Substring(ds, 0, Len(ds) - 1)) + DigitVal[Ch(ds, Len(ds))]

-----------------------------------------------------------------------------
(* Letter case *)

UpperToLower ==
    [A |-> "a", B |-> "b", C |-> "c", D |-> "d", E |-> "e", F |-> "f", G |-> "g",
     H |-> "h", I |-> "i", J |-> "j", K |-> "k", L |-> "l", M |-> "m", N |-> "n",
     O |-> "o", P |-> "p", Q |-> "q", R |-> "r", S |-> "s", T |-> "t", U |-> "u",
     V |-> "v", W |-> "w", X |-> "x", Y |-> "y", Z |-> "z"]

UpperCase == DOMAIN UpperToLower

LowerCase == {UpperToLower[c] : c \in UpperCase}

Letters == UpperCase \cup LowerCase

LowerChar(c) == IF c \in UpperCase THEN UpperToLower[c] ELSE c

UpperChar(c) ==
    IF c \in LowerCase THEN CHOOSE u \in UpperCase : UpperToLower[u] = c ELSE c

\* String.prototype.toLowerCase
\* the texts pieces[lo..hi], concatenated
RECURSIVE Join(_, _, _)
Join(pieces, lo, hi) ==
    IF lo > hi THEN ""
    ELSE IF lo = hi THEN pieces[lo]
    ELSE LET mid == (lo + hi) \div 2 IN
         Join(pieces, lo, mid) \o Join(pieces, mid + 1, hi)

\* String.prototype.toLowerCase
ToLowerCase(s) == Join([i \in 1..Len(s) |-> LowerChar(Ch(s, i))], 1, Len(s))

-----------------------------------------------------------------------------
(* Regular expressions, matched as JavaScript matches them: by backtracking *)
(* in priority order.  A pattern is a record: lit (a literal text), set (one *)
(* character of a class), seq, alt, rep (a quantifier {min,max}, greedy or   *)
(* lazy, max = -1 for no limit), grp (capture group n) and eol ($).          *)
(* A match state is [i, caps]: the next index (1-based) and the captures,    *)
(* each [def, s].  Matching a pattern from a state gives the sequence of     *)
(* the states it can end in, the one JavaScript tries first at the head.     *)

RxLit(s) == [t |-> "lit", s |-> s]
RxSet(cs) == [t |-> "set", neg |-> FALSE, cs |-> cs]
RxNot(cs) == [t |-> "set", neg |-> TRUE, cs |-> cs]
RxSeq(xs) == [t |-> "seq", xs |-> xs]
RxAlt(xs) == [t |-> "alt", xs |-> xs]
RxRep(x, min, max, lazy) == [t |-> "rep", x |-> x, min |-> min, max |-> max, lazy |-> lazy]
RxGrp(n, x) == [t |-> "grp", n |-> n, x |-> x]
RxEol == [t |-> "eol"]
RxStar(x) == RxRep(x, 0, -1, FALSE)
RxPlus(x) == RxRep(x, 1, -1, FALSE)
RxPlusLazy(x) == RxRep(x, 1, -1, TRUE)
RxOpt(x) == RxRep(x, 0, 1, FALSE)
\* \s* and \s+
RxWs0 == RxStar(RxSet(WhiteSpace))
RxWs1 == RxPlus(RxSet(WhiteSpace))

NoCapture == [def |-> FALSE, s |-> ""]

\* does character c belong to the class, under the i flag when ci
InClass(re, c, ci) ==
    LET in == c \in re.cs \/ (ci /\ (LowerChar(c) \in re.cs \/ UpperChar(c) \in re.cs))
    IN  IF re.neg THEN ~in ELSE in

\* are the characters a and b the same, without regard to case when ci
SameChar(a, b, ci) == a = b \/ (ci /\ LowerChar(a) = LowerChar(b))

\* the first index in lo..hi-1 whose character is outside the class, or hi
RECURSIVE RunEnd(_, _, _, _, _)
RunEnd(re, s, ci, lo, hi) ==
    IF lo >= hi THEN hi
    ELSE IF hi - lo = 1 THEN (IF InClass(re, Ch(s, lo), ci) THEN hi ELSE lo)
    ELSE LET mid == (lo + hi) \div 2
             m == RunEnd(re, s, ci, lo, mid)
         IN  IF m < mid THEN m ELSE RunEnd(re, s, ci, mid, hi)

\* a quantified class from index i: the numbers of characters it can take,
\* the most first when greedy, the fewest first when lazy
ClassRun(re, s, ci, st) ==
    LET room == Len(s) - st.i + 1
        cap == IF re.max = -1 \/ re.max > room THEN room ELSE re.max
        r == RunEnd(re.x, s, ci, st.i, st.i + cap) - st.i
    IN  IF r < re.min THEN <<>>
        ELSE [k \in 1..(r - re.min + 1) |->
                [st EXCEPT !.i = @ + (IF re.lazy THEN re.min + k - 1 ELSE r - k + 1)]]

\* the states pattern re can end in from each of the states sts, in the order
\* JavaScript tries them.  A seq or alt works through its xs from the head; a
\* quantified group counts its turns down in min and max
RECURSIVE RxMatch(_, _, _, _)
RxMatch(re, s, ci, sts) ==
    IF Len(sts) = 0 THEN <<>>
    ELSE IF Len(sts) > 1
    THEN LET mid == Len(sts) \div 2 IN
         RxMatch(re, s, ci, SubSeq(sts, 1, mid))
            \o RxMatch(re, s, ci, SubSeq(sts, mid + 1, Len(sts)))
    ELSE LET st == sts[1] IN
    CASE re.t = "lit" ->
            IF /\ st.i + Len(re.s) - 1 <= Len(s)
               /\ \A k \in 1..Len(re.s) : SameChar(Ch(s, st.i + k - 1), Ch(re.s, k), ci)
            THEN <<[st EXCEPT !.i = @ + Len(re.s)]>> ELSE <<>>
      [] re.t = "set" ->
            IF st.i <= Len(s) /\ InClass(re, Ch(s, st.i), ci)
            THEN <<[st EXCEPT !.i = @ + 1]>> ELSE <<>>
      [] re.t = "seq" ->
            IF re.xs = <<>> THEN sts
            ELSE RxMatch([re EXCEPT !.xs = Tail(@)], s, ci, RxMatch(Head(re.xs), s, ci, sts))
      [] re.t = "alt" ->
            IF re.xs = <<>> THEN <<>>
            ELSE RxMatch(Head(re.xs), s, ci, sts)
                    \o RxMatch([re EXCEPT !.xs = Tail(@)], s, ci, sts)
      [] re.t = "rep" ->
            IF re.x.t = "set" THEN ClassRun(re, s, ci, st)
            ELSE LET stop == IF re.min <= 0 THEN sts ELSE <<>>
                     turn == SelectSeq(RxMatch(re.x, s, ci, sts),
                                       LAMBDA e : e.i > st.i \/ re.min > 0)
                     more == IF re.max = 0 THEN <<>>
                             ELSE RxMatch([re EXCEPT !.min = IF @ > 0 THEN @ - 1 ELSE 0,
                                                     !.max = IF @ = -1 THEN -1 ELSE @ - 1],
                                          s, ci, turn)
                 IN  IF re.lazy THEN stop \o more ELSE more \o stop
      [] re.t = "grp" ->
            LET ends == RxMatch(re.x, s, ci, sts) IN
            [k \in 1..Len(ends) |->
                [ends[k] EXCEPT !.caps[re.n] =
                    [def |-> TRUE, s |-> Substring(s, st.i - 1, ends[k].i - 1)]]]
      [] re.t = "eol" -> IF st.i = Len(s) + 1 THEN sts ELSE <<>>

NoMatch == [found |-> FALSE, index |-> 0, end |-> 0, caps |-> <<>>]

\* the match that starts at index p and ends as the first of ends does
RxFound(p, ends) ==
    IF Len(ends) > 0
    THEN [found |-> TRUE, index |-> p, end |-> ends[1].i, caps |-> ends[1].caps]
    ELSE NoMatch

\* the match of re that starts at index p, if there is one
RxAt(re, s, ci, ng, p) ==
    RxFound(p, RxMatch(re, s, ci, <<[i |-> p, caps |-> [n \in 1..ng |-> NoCapture]]>>))

\* match m if it is one, or else match n
RxOrElse(m, n) == IF m.found THEN m ELSE n

\* the leftmost match that starts at an index in lo..hi
RECURSIVE RxFirst(_, _, _, _, _, _)
RxFirst(re, s, ci, ng, lo, hi) ==
    IF lo > hi THEN NoMatch
    ELSE IF lo = hi THEN RxAt(re, s, ci, ng, lo)
    ELSE RxOrElse(RxFirst(re, s, ci, ng, lo, (lo + hi) \div 2),
                  RxFirst(re, s, ci, ng, (lo + hi) \div 2 + 1, hi))

\* RegExp.prototype.exec with lastIndex = from - 1: the leftmost match that
\* starts at index from (1-based) or later; ng is the number of groups
RxExec(re, s, ci, ng, from) == RxFirst(re, s, ci, ng, from, Len(s) + 1)

\* the text of a match
Matched(s, m) == Substring(s, m.index - 1, m.end - 1)

\* the successive matches of a global pattern, as exec finds them from
\* lastIndex: m is the match exec just found
RECURSIVE RxMatchesFrom(_, _, _, _, _)
RxMatchesFrom(re, s, ci, ng, m) ==
    IF ~m.found THEN <<>>
    ELSE <<m>> \o RxMatchesFrom(re, s, ci, ng,
                                RxExec(re, s, ci, ng,
                                       IF m.end = m.index THEN m.end + 1 ELSE m.end))

RxMatchAll(re, s, ci, ng, from) == RxMatchesFrom(re, s, ci, ng, RxExec(re, s, ci, ng, from))

\* String.prototype.replace with a global pattern: s with the match ms[k]
\* replaced by out[k]
Replaced(s, ms, out) ==
    LET n == Len(ms)
        between(j) == Substring(s, IF j = 1 THEN 0 ELSE ms[j - 1].end - 1,
                                   IF j = n + 1 THEN Len(s) ELSE ms[j].index - 1)
    IN  Join([k \in 1..(2 * n + 1) |->
                IF k % 2 = 1 THEN between((k + 1) \div 2) ELSE out[k \div 2]],
             1, 2 * n + 1)

-----------------------------------------------------------------------------
(* parseGameResponse: tags, fallback detection and story facts.  The time  *)
(* Date.now() returns and the identifiers crypto.randomUUID() returns are  *)
(* parameters: t, and id0, id0 + 1, ... in the order of the calls.         *)

\* null; no identifier the program derives has an upper-case letter
Null == "NULL"

\* s.replace(/\s+/g, '-'): every run of white space becomes one hyphen
Hyphenated(s) ==
    Join([i \in 1..Len(s) |->
            IF Ch(s, i) \notin WhiteSpace THEN Ch(s, i)
            ELSE IF Ch(s, i - 1) \in WhiteSpace THEN "" ELSE "-"],
         1, Len(s))

\* name.trim().toLowerCase().replace(/\s+/g, '-')
Slug(name) == Hyphenated(ToLowerCase(Trim(name)))

RxWords(ws) == RxAlt([k \in 1..Len(ws) |-> RxLit(ws[k])])

\* [^|\]]+? and [^\]]+?
RxField == RxPlusLazy(RxNot({"|", "]"}))
RxRest == RxPlusLazy(RxNot({"]"}))

\* (?:\s*\|\s*(x))?
RxBar(n, x) == RxOpt(RxSeq(<<RxWs0, RxLit("|"), RxWs0, RxGrp(n, x)>>))

itemAddRegex ==
    RxSeq(<<RxLit("["), RxWords(<<"ITEM_ADD", "ADD_ITEM">>), RxWs0, RxLit(":"), RxWs0,
            RxGrp(1, RxField), RxBar(2, RxField), RxBar(3, RxPlus(RxSet(Digits))),
            RxWs0, RxLit("]")>>)

locRegex ==
    RxSeq(<<RxLit("[LOCATION"), RxWs0, RxLit(":"), RxWs0,
            RxGrp(1, RxField), RxBar(2, RxRest), RxWs0, RxLit("]")>>)

npcRegex ==
    RxSeq(<<RxLit("[NPC"), RxWs0, RxLit(":"), RxWs0,
            RxGrp(1, RxField), RxBar(2, RxField), RxBar(3, RxRest), RxWs0, RxLit("]")>>)

eventRegex ==
    RxSeq(<<RxLit("[EVENT"), RxWs0, RxLit(":"), RxWs0, RxGrp(1, RxRest), RxWs0, RxLit("]")>>)

\* (?:the\s+|a\s+|an\s+)?
RxArticle ==
    RxOpt(RxAlt(<<RxSeq(<<RxLit("the"), RxWs1>>), RxSeq(<<RxLit("a"), RxWs1>>),
                  RxSeq(<<RxLit("an"), RxWs1>>)>>))

\* ([a-zA-Z][a-zA-Z\s-]{2,30}?) and ([A-Z][a-zA-Z\s'-]{2,40}?)
RxItemName ==
    RxGrp(1, RxSeq(<<RxSet(Letters), RxRep(RxSet(Letters \cup WhiteSpace \cup {"-"}), 2, 30, TRUE)>>))
RxPlaceName ==
    RxGrp(1, RxSeq(<<RxSet(UpperCase),
                     RxRep(RxSet(Letters \cup WhiteSpace \cup {"'", "-"}), 2, 40, TRUE)>>))

itemPatterns ==
    << RxSeq(<<RxLit("you"), RxWs1,
               RxWords(<<"pick up", "take", "grab", "pocket", "secure", "tuck", "slip",
                         "obtain", "acquire", "receive">>),
               RxWs1, RxArticle, RxItemName,
               RxWs1, RxAlt(<<RxLit("and"), RxLit("from"), RxLit("into"), RxLit(","),
                              RxLit("."), RxEol>>)>>),
       RxSeq(<<RxAlt(<<RxSeq(<<RxLit("hand"), RxOpt(RxLit("s")), RxLit(" you")>>),
                       RxSeq(<<RxLit("give"), RxOpt(RxLit("s")), RxLit(" you")>>),
                       RxSeq(<<RxLit("offer"), RxOpt(RxLit("s")), RxLit(" you")>>)>>),
               RxWs1, RxArticle, RxItemName,
               RxWs1, RxAlt(<<RxLit("and"), RxLit(","), RxLit("."), RxEol>>)>>),
       RxSeq(<<RxLit("you now "), RxWords(<<"have", "hold", "carry">>),
               RxWs1, RxArticle, RxItemName,
               RxAlt(<<RxSet(WhiteSpace), RxLit(","), RxLit("."), RxEol>>)>>) >>

\* the first two are case-sensitive, the third is not; the em dash the first
\* two also stop at is outside ASCII
locationPatterns ==
    << RxSeq(<<RxLit("you"), RxWs1,
               RxAlt(<<RxLit("arrive at"), RxLit("enter"), RxLit("reach"),
                       RxLit("step into"), RxLit("step inside"),
                       RxSeq(<<RxLit("find yourself "), RxWords(<<"in", "at">>)>>)>>),
               RxWs1, RxArticle, RxPlaceName,
               RxAlt(<<RxLit("."), RxLit(","), RxEol>>)>>),
       RxSeq(<<RxWords(<<"standing", "sitting", "waiting">>), RxWs1,
               RxWords(<<"in", "at", "inside">>),
               RxWs1, RxArticle, RxPlaceName,
               RxAlt(<<RxLit("."), RxLit(","), RxEol>>)>>),
       RxSeq(<<RxLit("the"), RxWs1,
               RxAlt(<<RxSeq(<<RxLit("door"), RxOpt(RxLit("s"))>>),
                       RxSeq(<<RxLit("gate"), RxOpt(RxLit("s"))>>), RxLit("entrance")>>),
               RxWs1, RxWords(<<"of", "to">>), RxWs1,
               RxOpt(RxSeq(<<RxLit("the"), RxWs1>>)), RxPlaceName,
               RxWs1, RxWords(<<"open", "close", "swing">>)>>) >>

factPatterns ==
    << RxSeq(<<RxAlt(<<RxSeq(<<RxLit("you"), RxWs1,
                               RxWords(<<"discover", "learn", "realize", "find out", "uncover">>)>>),
                       RxSeq(<<RxLit("reveal"), RxOpt(RxLit("s"))>>),
                       RxSeq(<<RxLit("it"), RxWs1, RxWords(<<"says", "reads", "mentions">>)>>),
                       RxSeq(<<RxLit("the"), RxWs1,
                               RxWords(<<"note", "letter", "message", "book", "tome">>), RxWs1,
                               RxWords(<<"says", "reads", "mentions", "reveals">>)>>)>>),
               RxWs1, RxOpt(RxSeq(<<RxLit("that"), RxWs1>>)), RxOpt(RxSet({"\"", "'"})),
               RxGrp(1, RxRep(RxNot({"\"", "'", ".", "!", "?"}), 15, 100, FALSE))>>),
       RxSeq(<<RxSet({"\"", "'"}), RxGrp(1, RxRep(RxNot({"\"", "'"}), 20, 80, FALSE)),
               RxSet({"\"", "'"}), RxWs0, RxWords(<<"is", "was">>), RxWs1, RxLit("written")>>),
       RxSeq(<<RxWords(<<"secret", "hidden", "ancient", "mysterious">>), RxWs1,
               RxWords(<<"passage", "chamber", "room", "artifact", "relic">>), RxWs1,
               RxAlt(<<RxLit("is"), RxLit("was"), RxLit("has been"),
                       RxSeq(<<RxLit("contain"), RxOpt(RxLit("s"))>>)>>),
               RxWs1, RxGrp(1, RxRep(RxNot({".", "!", "?"}), 10, 60, FALSE))>>) >>

itemExcludeWords ==
    {"moment", "breath", "step", "steps", "look", "hand", "hands", "air", "door", "room",
     "shadow", "shadows", "fog", "mist", "time", "place", "way"}

locationExcludeWords == {"moment", "darkness", "void", "nothing", "something", "everything"}

\* callbacks that take a tag whatever its first field
TagTakenAnyName(m) == m.caps[1].def

\* the replace callbacks leave a tag in place when its first field is blank
TagTaken(m) == m.caps[1].def /\ Trim(m.caps[1].s) # ""

\* a replace that leaves every tag where it is
TagsLeft(text, ms) == text

\* cleanText.replace(regex, callback): the text without the tags taken
TagsRemoved(text, ms) ==
    Replaced(text, ms, [k \in 1..Len(ms) |-> IF TagTaken(ms[k]) THEN "" ELSE Matched(text, ms[k])])

\* the matches whose tags were taken, in text order
TagsTaken(ms) == SelectSeq(ms, TagTaken)

\* the fallback item loop: names are match[1].trim() of the matches of the
\* three patterns in turn, found is foundItems
RECURSIVE FallbackItems(_, _, _)
FallbackItems(names, k, found) ==
    IF k > Len(names) THEN <<>>
    ELSE LET itemName == names[k]
             lower == ToLowerCase(itemName)
         IN  IF Len(itemName) > 2 /\ lower \notin itemExcludeWords /\ lower \notin found
             THEN <<[type |-> "ADD_ITEM",
                     payload |-> [id |-> Slug(itemName) , name |-> itemName,
                                  description |-> "Acquired during adventure",
                                  quantity |-> 1]]>>
                  \o FallbackItems(names, k + 1, found \cup {lower})
             ELSE FallbackItems(names, k + 1, found)

\* a loop without its break: every pattern's first match gives a command
LocationOrElseEvery(m, t, others) ==
    (IF /\ m.found
        /\ Len(Trim(m.caps[1].s)) > 2
        /\ ToLowerCase(Trim(m.caps[1].s)) \notin locationExcludeWords
     THEN <<[type |-> "SET_LOCATION",
             payload |-> [id |-> Slug(m.caps[1].s), name |-> Trim(m.caps[1].s),
                          description |-> "Discovered location",
                          visitedAt |-> t]]>>
     ELSE <<>>) \o others

\* the fallback location loop: the first match of each pattern in turn, until
\* one gives a name that is kept
\* m is the match of one pattern, others what the patterns after it give
LocationOrElse(m, t, others) ==
    IF /\ m.found
       /\ Len(Trim(m.caps[1].s)) > 2
       /\ ToLowerCase(Trim(m.caps[1].s)) \notin locationExcludeWords
    THEN <<[type |-> "SET_LOCATION",
            payload |-> [id |-> Slug(m.caps[1].s), name |-> Trim(m.caps[1].s),
                         description |-> "Discovered location",
                         visitedAt |-> t]]>>
    ELSE others

RECURSIVE FallbackLocation(_, _, _)
FallbackLocation(text, k, t) ==
    IF k > Len(locationPatterns) THEN <<>>
    ELSE LocationOrElse(RxExec(locationPatterns[k], text, k = 3, 1, 1), t,
                        FallbackLocation(text, k + 1, t))

\* the four tag regexes in the order their replace passes run
tagRegexes == <<itemAddRegex, locRegex, npcRegex, eventRegex>>

\* the four replace passes from pass k on: each works on the text the pass
\* before it left, and gives the text it leaves and the tags it took
RECURSIVE TagPasses(_, _), TagPass(_, _, _)
TagPasses(text, k) ==
    IF k > Len(tagRegexes) THEN <<>>
    ELSE TagPass(text, k, RxMatchAll(tagRegexes[k], text, TRUE, 3, 1))

\* pass k, ms being the matches of its regex in text
TagPass(text, k, ms) ==
    <<[text |-> TagsRemoved(text, ms), taken |-> TagsTaken(ms)]>>
        \o TagPasses(TagsRemoved(text, ms), k + 1)

\* match[1].trim() of the matches ms
FirstGroups(ms) == [n \in 1..Len(ms) |-> Trim(ms[n].caps[1].s)]

\* match[1].trim() of the matches of each of the patterns in turn
RECURSIVE PatternNames(_, _, _)
PatternNames(patterns, text, k) ==
    IF k > Len(patterns) THEN <<>>
    ELSE FirstGroups(RxMatchAll(patterns[k], text, TRUE, 1, 1))
            \o PatternNames(patterns, text, k + 1)

itemCommand(c) ==
    [type |-> "ADD_ITEM",
     payload |-> [id |-> Slug(c[1].s), name |-> Trim(c[1].s),
                  description |-> IF c[2].def /\ c[2].s # ""
                                  THEN Trim(c[2].s) ELSE "No description",
                  quantity |-> IF c[3].def /\ c[3].s # ""
                               THEN ParseInt(c[3].s) ELSE 1]]

locationCommand(c, t) ==
    [type |-> "SET_LOCATION",
     payload |-> [id |-> Slug(c[1].s), name |-> Trim(c[1].s),
                  description |-> IF c[2].def /\ c[2].s # ""
                                  THEN Trim(c[2].s) ELSE "Unknown location",
                  visitedAt |-> t]]

npcCommand(c, t) ==
    [type |-> "ADD_NPC",
     payload |-> [id |-> Slug(c[1].s), name |-> Trim(c[1].s),
                  currentLocationId |-> IF c[2].def /\ c[2].s # ""
                                        THEN Slug(c[2].s) ELSE Null,
                  description |-> IF c[3].def /\ c[3].s # ""
                                  THEN Trim(c[3].s) ELSE "A mysterious figure",
                  firstMetAt |-> t]]

eventCommand(c, t, id) ==
    [type |-> "STORY_EVENT",
     payload |-> [id |-> id, description |-> Trim(c[1].s), timestamp |-> t]]

factCommands(names) ==
    LET kept == SelectSeq(names, LAMBDA fact : Len(fact) > 15 /\ Len(fact) < 100) IN
    [k \in 1..Len(kept) |->
        [type |-> "STORY_FACT", payload |-> [fact |-> kept[k], importance |-> "major"]]]

\* the commands with the item fallback run whatever the tags gave
ParsedCommandsUngated(passes, cleanText, t, id0) ==
    LET itemCmds == [k \in 1..Len(passes[1].taken) |-> itemCommand(passes[1].taken[k].caps)]
        locCmds == [k \in 1..Len(passes[2].taken) |-> locationCommand(passes[2].taken[k].caps, t)]
    IN  itemCmds \o locCmds
        \o [k \in 1..Len(passes[3].taken) |-> npcCommand(passes[3].taken[k].caps, t)]
        \o [k \in 1..Len(passes[4].taken) |->
                eventCommand(passes[4].taken[k].caps, t, id0 + k - 1)]
        \o FallbackItems(PatternNames(itemPatterns, cleanText, 1), 1, {})
        \o (IF Len(locCmds) = 0 THEN FallbackLocation(cleanText, 1, t) ELSE <<>>)
        \o factCommands(PatternNames(factPatterns, cleanText, 1))

\* the commands of the tags the passes took, then the fallbacks and the facts
\* found in cleanText, the text the last pass left (before its final trim)
ParsedCommands(passes, cleanText, t, id0) ==
    LET itemCmds == [k \in 1..Len(passes[1].taken) |-> itemCommand(passes[1].taken[k].caps)]
        locCmds == [k \in 1..Len(passes[2].taken) |-> locationCommand(passes[2].taken[k].caps, t)]
    IN  itemCmds \o locCmds
        \o [k \in 1..Len(passes[3].taken) |-> npcCommand(passes[3].taken[k].caps, t)]
        \o [k \in 1..Len(passes[4].taken) |->
                eventCommand(passes[4].taken[k].caps, t, id0 + k - 1)]
        \o (IF Len(itemCmds) = 0
            THEN FallbackItems(PatternNames(itemPatterns, cleanText, 1), 1, {}) ELSE <<>>)
        \o (IF Len(locCmds) = 0 THEN FallbackLocation(cleanText, 1, t) ELSE <<>>)
        \o factCommands(PatternNames(factPatterns, cleanText, 1))

\* a result whose text is not trimmed
ParsedResponseUntrimmed(passes, t, id0) ==
    [cleanText |-> passes[4].text,
     commands |-> ParsedCommands(passes, passes[4].text, t, id0),
     uuids |-> Len(passes[4].taken)]

ParsedResponse(passes, t, id0) ==
    [cleanText |-> Trim(passes[4].text),
     commands |-> ParsedCommands(passes, passes[4].text, t, id0),
     uuids |-> Len(passes[4].taken)]

parseGameResponse(text, t, id0) == ParsedResponse(TagPasses(text, 1), t, id0)

-----------------------------------------------------------------------------
(* buildContextSummary.  currentLocation is <<the location>>, and <<>> for  *)
(* null; storyFacts is the array the hook always passes.                    *)

\* xs.join(sep)
RECURSIVE JoinWith(_, _)
JoinWith(xs, sep) ==
    IF Len(xs) = 0 THEN ""
    ELSE IF Len(xs) = 1 THEN xs[1]
    ELSE xs[1] \o sep \o JoinWith(Tail(xs), sep)

\* storyFacts.filter(f => f.importance === importance).map(f => f.fact)
FactsOf(storyFacts, importance) ==
    LET kept == SelectSeq(storyFacts, LAMBDA f : f.importance = importance)
    IN  [k \in 1..Len(kept) |-> kept[k].fact]

Names(xs) == [k \in 1..Len(xs) |-> xs[k].name]

Descriptions(xs) == [k \in 1..Len(xs) |-> xs[k].description]

\* parts, after the five pushes
SummaryParts(currentLocation, inventory, npcsAtLocation, recentEvents, storyFacts) ==
    (IF Len(FactsOf(storyFacts, "critical")) > 0
     THEN <<"CRITICAL FACTS (never forget): "
              \o JoinWith(FactsOf(storyFacts, "critical"), "; ") \o ".">>
     ELSE <<>>)
    \o (IF Len(FactsOf(storyFacts, "major")) > 0
        THEN <<"Important facts: " \o JoinWith(FactsOf(storyFacts, "major"), "; ") \o ".">>
        ELSE <<>>)
    \o (IF currentLocation # <<>>
        THEN <<"Current location: \"" \o currentLocation[1].name \o "\".">>
        ELSE <<>>)
    \o (IF Len(npcsAtLocation) > 0
        THEN <<"NPCs present: " \o JoinWith(Names(npcsAtLocation), ", ") \o ".">>
        ELSE <<>>)
    \o (IF Len(inventory) > 0
        THEN <<"Player's inventory: " \o JoinWith(Names(inventory), ", ") \o ".">>
        ELSE <<>>)
    \o (IF Len(recentEvents) > 0
        THEN <<"Recent events: " \o JoinWith(Descriptions(recentEvents), "; ") \o ".">>
        ELSE <<>>)

\* the reminder that holds the parts
SummaryOf(parts) ==
    "\n\n[STORY CONTEXT - YOU MUST REMEMBER THIS:\n"
        \o JoinWith(parts, "\n")
        \o "\nStay consistent with these facts. NPCs should remember past events. "
        \o "Do not contradict established facts.]"

\* a summary that is the reminder even when it has no part
buildContextSummaryAlways(currentLocation, inventory, npcsAtLocation, recentEvents, storyFacts) ==
    SummaryOf(SummaryParts(currentLocation, inventory, npcsAtLocation, recentEvents,
                           storyFacts))

buildContextSummary(currentLocation, inventory, npcsAtLocation, recentEvents, storyFacts) ==
    IF Len(SummaryParts(currentLocation, inventory, npcsAtLocation, recentEvents,
                        storyFacts)) = 0
    THEN ""
    ELSE SummaryOf(SummaryParts(currentLocation, inventory, npcsAtLocation, recentEvents,
                                storyFacts))

-----------------------------------------------------------------------------
(* detectMovementIntent.  test() of a pattern that begins with ^ is a match *)
(* at the first index; groups that only group capture nothing here.         *)

\* \w+
RxWord == RxPlus(RxSet(Letters \cup Digits \cup {"_"}))

\* s? after a word
RxPlural(w) == RxSeq(<<RxLit(w), RxOpt(RxLit("s"))>>)

\* (?:go|head|travel|walk|run|return|arrive|visit|get)\s+(?:to|at|back to)?\s*
\* (?:the\s+)?(.+?)(?:\s+to\s+see|\s+to\s+meet|\s+to\s+find|$)
destinationRegex ==
    RxSeq(<<RxWords(<<"go", "head", "travel", "walk", "run", "return", "arrive", "visit",
                      "get">>),
            RxWs1, RxOpt(RxWords(<<"to", "at", "back to">>)), RxWs0,
            RxOpt(RxSeq(<<RxLit("the"), RxWs1>>)),
            RxGrp(1, RxPlusLazy(RxNot({"\n", "\r"}))),
            RxAlt(<<RxSeq(<<RxWs1, RxLit("to"), RxWs1, RxLit("see")>>),
                    RxSeq(<<RxWs1, RxLit("to"), RxWs1, RxLit("meet")>>),
                    RxSeq(<<RxWs1, RxLit("to"), RxWs1, RxLit("find")>>),
                    RxEol>>)>>)

\* a pattern and whether it begins with ^
Anchored(re) == [anchored |-> TRUE, re |-> re]
Floating(re) == [anchored |-> FALSE, re |-> re]

arrivalPatterns ==
    << Anchored(RxSeq(<<RxLit("i"), RxWs1, RxLit("arrive")>>)),
       Anchored(RxSeq(<<RxLit("i"), RxWs1, RxLit("enter")>>)),
       Anchored(RxSeq(<<RxLit("i"), RxWs1, RxLit("reach")>>)),
       Anchored(RxSeq(<<RxLit("i"), RxWs1, RxLit("get"), RxWs1, RxLit("to")>>)),
       Anchored(RxSeq(<<RxLit("i"), RxWords(<<"'m", " am">>), RxWs1,
                        RxWords(<<"at", "inside", "there">>)>>)),
       Anchored(RxSeq(<<RxLit("i"), RxWs1, RxLit("step"), RxWs1,
                        RxWords(<<"into", "inside">>)>>)) >>

movementPatterns ==
    << Anchored(RxSeq(<<RxLit("i"), RxWs1,
                        RxWords(<<"go", "head", "travel", "walk", "run", "return", "leave",
                                  "exit", "depart", "move">>),
                        RxWs1,
                        RxAlt(<<RxLit("to"), RxPlural("toward"), RxLit("back"),
                                RxLit("home"), RxLit("for")>>)>>)),
       Anchored(RxSeq(<<RxLit("i"), RxWs1, RxWords(<<"go", "head", "walk", "run">>),
                        RxWs1, RxWord>>)),
       Anchored(RxSeq(<<RxAlt(<<RxSeq(<<RxLit("let"), RxOpt(RxLit("'")), RxOpt(RxLit("s"))>>),
                                RxLit("we")>>),
                        RxWs1, RxWords(<<"go", "head", "travel", "leave", "return">>)>>)),
       Anchored(RxSeq(<<RxWords(<<"going", "heading", "leaving", "returning">>), RxWs1,
                        RxWords(<<"to", "home", "back">>)>>)),
       Anchored(RxLit("take me to")),
       Anchored(RxLit("bring me to")),
       Anchored(RxSeq(<<RxLit("i want to "),
                        RxWords(<<"go", "leave", "return", "head", "visit">>)>>)),
       Anchored(RxSeq(<<RxLit("i"), RxWords(<<"'d", " would">>), RxLit(" like to "),
                        RxWords(<<"go", "leave", "return", "visit">>)>>)),
       Anchored(RxWords(<<"off to", "back to", "home to">>)),
       Anchored(RxLit("go to")),
       Floating(RxSeq(<<RxLit("need to "), RxWords(<<"visit", "go", "see", "meet">>)>>)),
       Anchored(RxSeq(<<RxLit("i"), RxWs1, RxWords(<<"need", "must", "have">>), RxWs1,
                        RxLit("to"), RxWs1, RxWords(<<"go", "visit", "see", "get">>)>>)) >>

\* (go|head|travel|return|leave|visit)\s+(to\s+)?my\s+(home|apartment|house|room|place)
homePattern ==
    Floating(RxSeq(<<RxWords(<<"go", "head", "travel", "return", "leave", "visit">>), RxWs1,
                     RxOpt(RxSeq(<<RxLit("to"), RxWs1>>)), RxLit("my"), RxWs1,
                     RxWords(<<"home", "apartment", "house", "room", "place">>)>>))

\* pattern.test(s)
Test(pattern, s) ==
    IF pattern.anchored THEN RxAt(pattern.re, s, TRUE, 0, 1).found
    ELSE RxExec(pattern.re, s, TRUE, 0, 1).found

\* some pattern of the list tests true
TestsAny(patterns, s) == \E k \in 1..Len(patterns) : Test(patterns[k], s)

\* destinationMatch ? destinationMatch[1].trim() : 'their destination'
DestinationOf(m) == IF m.found THEN Trim(m.caps[1].s) ELSE "their destination"

Destination(lowerInput) == DestinationOf(RxExec(destinationRegex, lowerInput, TRUE, 1, 1))

ArrivalDirective(destination) ==
    "\n\n[ARRIVAL COMMAND - The player has ARRIVED. You MUST describe them being INSIDE "
    \o destination
    \o " NOW. Start your response with them already at the new location. Use [LOCATION: "
    \o destination
    \o "|Description]. Do NOT describe traveling or leaving - they are ALREADY THERE.]"

MovementDirective(destination) ==
    "\n\n[MOVEMENT COMMAND - COMPLETE THE JOURNEY IN THIS RESPONSE!\nYou MUST:\n"
    \o "1. One brief travel sentence (MAXIMUM)\n"
    \o "2. Describe player ARRIVING and being INSIDE " \o destination \o "\n"
    \o "3. Use [LOCATION: " \o destination \o "|Description] tag\n"
    \o "4. Describe the NEW location's interior/details\n"
    \o "5. DO NOT end with fog, traveling, or suspense - they ARRIVE NOW!\n"
    \o "FORBIDDEN: Ending response with player still outside or traveling.]"

HomeDirective ==
    "\n\n[MOVEMENT TO HOME - Describe arrival at their home. "
    \o "Use [LOCATION: Player's Home|Description]. They ARRIVE in this response.]"

\* a detector that tests the movement patterns before the arrival patterns
IntentMovementFirst(lowerInput) ==
    IF TestsAny(movementPatterns, lowerInput)
    THEN MovementDirective(Destination(lowerInput))
    ELSE IF TestsAny(arrivalPatterns, lowerInput)
    THEN ArrivalDirective(Destination(lowerInput))
    ELSE IF Test(homePattern, lowerInput) THEN HomeDirective
    ELSE ""

\* the three loops in their order, on lowerInput
Intent(lowerInput) ==
    IF TestsAny(arrivalPatterns, lowerInput)
    THEN ArrivalDirective(Destination(lowerInput))
    ELSE IF TestsAny(movementPatterns, lowerInput)
    THEN MovementDirective(Destination(lowerInput))
    ELSE IF Test(homePattern, lowerInput) THEN HomeDirective
    ELSE ""

detectMovementIntent(input) == Intent(Trim(ToLowerCase(input)))

-----------------------------------------------------------------------------
(* JSON.parse, for the JSON of objects, arrays, strings with the escapes   *)
(* \" \\ \/ \n \t \r, integers, true, false and null.  A value is a record *)
(* [t, v]; an object's v is the sequence of its members [k, v] in text     *)
(* order, an array's v the sequence of its elements.                       *)

JsonWs == {" ", "\n", "\t", "\r"}

JsonControl == {"\n", "\t", "\r", "\f"}

JsonEscapes ==
    ("\"" :> "\"") @@ ("\\" :> "\\") @@ ("/" :> "/") @@
    ("n" :> "\n") @@ ("t" :> "\t") @@ ("r" :> "\r")

JsonUndefined == [t |-> "undefined", v |-> "undefined"]

JsonFail(i) == [ok |-> FALSE, v |-> JsonUndefined, i |-> i]

JsonOk(v, i) == [ok |-> TRUE, v |-> v, i |-> i]

RECURSIVE SkipWs(_, _)
SkipWs(s, i) == IF Ch(s, i) \in JsonWs THEN SkipWs(s, i + 1) ELSE i

\* the rest of a string literal whose opening quote precedes s[i]
RECURSIVE JsonString(_, _, _)
JsonString(s, i, acc) ==
    LET c == Ch(s, i) IN
    IF c = "" THEN JsonFail(i)
    ELSE IF c = "\"" THEN JsonOk([t |-> "string", v |-> acc], i + 1)
    ELSE IF c = "\\"
         THEN IF Ch(s, i + 1) \in DOMAIN JsonEscapes
              THEN JsonString(s, i + 2, acc \o JsonEscapes[Ch(s, i + 1)])
              ELSE JsonFail(i)
    ELSE IF c \in JsonControl THEN JsonFail(i)
    ELSE JsonString(s, i + 1, acc \o c)

RECURSIVE DigitsEnd(_, _)
DigitsEnd(s, i) == IF Ch(s, i) \in Digits THEN DigitsEnd(s, i + 1) ELSE i

JsonNumber(s, i) ==
    LET neg == Ch(s, i) = "-"
        j == IF neg THEN i + 1 ELSE i
        e == DigitsEnd(s, j)
        ds == Substring(s, j - 1, e - 1)
    IN  IF e = j \/ (Len(ds) > 1 /\ Ch(ds, 1) = "0") THEN JsonFail(i)
        ELSE JsonOk([t |-> "number",
                     v |-> IF neg THEN 0 - ParseInt(ds) ELSE ParseInt(ds)], e)

RECURSIVE JsonValue(_, _), JsonMembers(_, _, _), JsonElements(_, _, _)

JsonValue(s, i0) ==
    LET i == SkipWs(s, i0)
        c == Ch(s, i)
    IN  IF c = "{"
        THEN IF Ch(s, SkipWs(s, i + 1)) = "}"
             THEN JsonOk([t |-> "object", v |-> <<>>], SkipWs(s, i + 1) + 1)
             ELSE JsonMembers(s, i + 1, <<>>)
        ELSE IF c = "["
        THEN IF Ch(s, SkipWs(s, i + 1)) = "]"
             THEN JsonOk([t |-> "array", v |-> <<>>], SkipWs(s, i + 1) + 1)
             ELSE JsonElements(s, i + 1, <<>>)
        ELSE IF c = "\"" THEN JsonString(s, i + 1, "")
        ELSE IF c \in Digits \cup {"-"} THEN JsonNumber(s, i)
        ELSE IF Substring(s, i - 1, i + 3) = "true"
        THEN JsonOk([t |-> "boolean", v |-> TRUE], i + 4)
        ELSE IF Substring(s, i - 1, i + 4) = "false"
        THEN JsonOk([t |-> "boolean", v |-> FALSE], i + 5)
        ELSE IF Substring(s, i - 1, i + 3) = "null"
        THEN JsonOk([t |-> "null", v |-> "null"], i + 4)
        ELSE JsonFail(i)

\* "key": value { , "key": value } "}" ; i follows "{" or ","
JsonMembers(s, i0, acc) ==
    LET i == SkipWs(s, i0) IN
    IF Ch(s, i) # "\"" THEN JsonFail(i)
    ELSE LET k == JsonString(s, i + 1, "") IN
         IF ~k.ok THEN JsonFail(k.i)
         ELSE LET j == SkipWs(s, k.i) IN
              IF Ch(s, j) # ":" THEN JsonFail(j)
              ELSE LET val == JsonValue(s, j + 1) IN
                   IF ~val.ok THEN JsonFail(val.i)
                   ELSE LET e == SkipWs(s, val.i)
                            ms == Append(acc, [k |-> k.v.v, v |-> val.v])
                        IN  IF Ch(s, e) = "," THEN JsonMembers(s, e + 1, ms)
                            ELSE IF Ch(s, e) = "}"
                            THEN JsonOk([t |-> "object", v |-> ms], e + 1)
                            ELSE JsonFail(e)

\* value { , value } "]" ; i follows "[" or ","
JsonElements(s, i0, acc) ==
    LET val == JsonValue(s, i0) IN
    IF ~val.ok THEN JsonFail(val.i)
    ELSE LET e == SkipWs(s, val.i)
             es == Append(acc, val.v)
         IN  IF Ch(s, e) = "," THEN JsonElements(s, e + 1, es)
             ELSE IF Ch(s, e) = "]"
             THEN JsonOk([t |-> "array", v |-> es], e + 1)
             ELSE JsonFail(e)

\* JSON.parse(text): ok is FALSE where JSON.parse throws a SyntaxError
JsonParse(text) ==
    LET r == JsonValue(text, 1) IN
    IF r.ok /\ SkipWs(text, r.i) = Len(text) + 1 THEN r ELSE JsonFail(r.i)

\* obj.key of JavaScript on a parsed value: undefined when absent
Prop(val, key) ==
    IF val.t # "object" THEN JsonUndefined
    ELSE LET at == {n \in 1..Len(val.v) : val.v[n].k = key} IN
         IF at = {} THEN JsonUndefined
         ELSE val.v[CHOOSE n \in at : \A m \in at : m <= n].v

-----------------------------------------------------------------------------
(* generateResponseStream: the decoder of the streamed response body *)

\* history kept beside the decoder's locals: off is the transport offset of
\* buffer[0], touched the transport offsets (1-based) of the characters at
\* which the scan changed brackets
NewDecoder ==
    [buffer |-> "", brackets |-> 0, inString |-> FALSE, escaped |-> FALSE,
     startIdx |-> -1, out |-> <<>>, threw |-> FALSE, off |-> 0, touched |-> {}]

\* a scan whose JSON.parse stood outside any try: the error leaves the scan
ParseSpanUncaught(jsonStr) ==
    LET r == JsonParse(jsonStr) IN
    [out |-> IF r.ok THEN <<r.v>> ELSE <<>>, threw |-> ~r.ok]

\* try { yield JSON.parse(jsonStr); } catch (e) { console.error(...) }: the
\* message when the span parses; a span that does not parse is logged and
\* nothing is thrown out of the scan
ParseSpan(jsonStr) ==
    LET r == JsonParse(jsonStr) IN
    [out |-> IF r.ok THEN <<r.v>> ELSE <<>>, threw |-> FALSE]

\* a cut that leaves the span in the buffer
CutSpanKeeping(d, i) ==
    LET jsonStr == Substring(d.buffer, d.startIdx, i + 1)
        r == ParseSpan(jsonStr)
    IN  [d EXCEPT !.out = @ \o r.out,
                  !.threw = r.threw,
                  !.startIdx = -1,
                  !.off = @ + i + 1]

\* a complete span was cut at buffer[i]: parse it, yield it when it parses,
\* drop it from the buffer
CutSpan(d, i) ==
    LET jsonStr == Substring(d.buffer, d.startIdx, i + 1)
        r == ParseSpan(jsonStr)
    IN  [d EXCEPT !.out = @ \o r.out,
                  !.threw = r.threw,
                  !.buffer = Substring(d.buffer, i + 1, Len(d.buffer)),
                  !.startIdx = -1,
                  !.off = @ + i + 1]

\* the body of while (i < buffer.length) for one index i (0-based)
ScanChar(d, i) ==
    LET char == Ch(d.buffer, i + 1) IN
    IF d.escaped THEN [d EXCEPT !.escaped = FALSE]
    ELSE IF char = "\\" THEN [d EXCEPT !.escaped = TRUE]
    ELSE IF char = "\"" THEN [d EXCEPT !.inString = ~@]
    ELSE IF ~d.inString /\ char = "{"
    THEN [d EXCEPT !.startIdx = IF d.brackets = 0 THEN i ELSE @,
                   !.brackets = @ + 1,
                   !.touched = @ \cup {d.off + i + 1}]
    ELSE IF ~d.inString /\ char = "}"
    THEN LET e == [d EXCEPT !.brackets = @ - 1,
                            !.touched = @ \cup {d.off + i + 1}]
         IN  IF e.brackets = 0 /\ e.startIdx # -1 THEN CutSpan(e, i) ELSE e
    ELSE d

\* while (i < buffer.length) { ... i++ }: the loop visits every character of
\* the buffer it was entered with once, in order (after a cut, i = -1 and i++
\* continue at the character that follows the span).  lo..hi-1 are offsets
\* into that buffer; off0 is d.off on entry, so the cut so far is d.off - off0.
\* An exception that leaves the scan ends it
RECURSIVE ScanLoop(_, _, _, _)
ScanLoop(d, off0, lo, hi) ==
    IF d.threw \/ lo - (d.off - off0) >= Len(d.buffer) \/ lo >= hi THEN d
    ELSE IF hi - lo = 1 THEN ScanChar(d, lo - (d.off - off0))
    ELSE LET mid == (lo + hi) \div 2 IN
         ScanLoop(ScanLoop(d, off0, lo, mid), off0, mid, hi)

\* reader.read() gave a fragment: buffer += chunk, then the scan from i = 0
\* with the brackets, inString, escaped and startIdx of the previous fragment
DecodeChunk(d, chunk) ==
    LET b == [d EXCEPT !.buffer = @ \o chunk, !.out = <<>>] IN
    ScanLoop(b, b.off, 0, Len(b.buffer))

\* reader.read() gave done: one parse of what is left in the buffer
DecodeEnd(d) ==
    LET r == JsonParse(d.buffer) IN
    [d EXCEPT !.out = IF Trim(d.buffer) # "" /\ r.ok THEN <<r.v>> ELSE <<>>]

-----------------------------------------------------------------------------
(* useGameStore: the state and its actions, each a function of the state *)

MAX_CHAT_HISTORY == 50
MaxStoryEvents == 10
MaxStoryFacts == 20

\* the first line of the default system prompt stands for the whole of it
DefaultSystemPrompt == "You are a Game Master for a text-based RPG."

InitialStore ==
    [selectedModel |-> "", systemPrompt |-> DefaultSystemPrompt,
     chatHistory |-> <<>>, contextVector |-> JsonUndefined,
     inventory |-> <<>>, locations |-> <<>>, currentLocationId |-> Null,
     npcs |-> <<>>, storyEvents |-> <<>>, storyFacts |-> <<>>, journal |-> <<>>]

\* xs.slice(-n), where -0 is 0 and slice(0) is the whole array, and xs.slice(0, n)
SliceLast(xs, n) ==
    IF n > 0 /\ Len(xs) > n THEN SubSeq(xs, Len(xs) - n + 1, Len(xs)) ELSE xs
SliceFirst(xs, n) == IF Len(xs) > n THEN SubSeq(xs, 1, n) ELSE xs

setModel(st, model) == [st EXCEPT !.selectedModel = model]

\* an addMessage without the auto-trim
addMessageKeepingAll(st, message) ==
    [st EXCEPT !.chatHistory = Append(@, message)]

addMessage(st, message) ==
    LET newHistory == Append(st.chatHistory, message) IN
    [st EXCEPT !.chatHistory = IF Len(newHistory) > MAX_CHAT_HISTORY
                               THEN SliceLast(newHistory, MAX_CHAT_HISTORY)
                               ELSE newHistory]

setContextVector(st, context) == [st EXCEPT !.contextVector = context]

\* a clearGame that leaves the current location id as it is
clearGameKeepingLocation(st) ==
    [st EXCEPT !.chatHistory = <<>>, !.contextVector = JsonUndefined, !.inventory = <<>>,
               !.locations = <<>>, !.npcs = <<>>,
               !.storyEvents = <<>>, !.storyFacts = <<>>, !.journal = <<>>]

clearGame(st) ==
    [st EXCEPT !.chatHistory = <<>>, !.contextVector = JsonUndefined, !.inventory = <<>>,
               !.locations = <<>>, !.currentLocationId = Null, !.npcs = <<>>,
               !.storyEvents = <<>>, !.storyFacts = <<>>, !.journal = <<>>]

updateLastMessage(st, content) ==
    IF Len(st.chatHistory) > 0
    THEN [st EXCEPT !.chatHistory[Len(st.chatHistory)].content = content]
    ELSE st

trimChatHistory(st, maxMessages) ==
    IF Len(st.chatHistory) > maxMessages
    THEN [st EXCEPT !.chatHistory = SliceLast(@, maxMessages),
                    !.contextVector = JsonUndefined]
    ELSE st

\* an addItem that appends whatever the inventory holds
addItemAppending(st, newItem) ==
    [st EXCEPT !.inventory = Append(@, newItem)]

addItem(st, newItem) ==
    IF \E k \in 1..Len(st.inventory) : st.inventory[k].id = newItem.id
    THEN [st EXCEPT !.inventory =
            [k \in 1..Len(@) |->
                IF @[k].id = newItem.id
                THEN [@[k] EXCEPT !.quantity = @ + newItem.quantity] ELSE @[k]]]
    ELSE [st EXCEPT !.inventory = Append(@, newItem)]

removeItem(st, id, amount) ==
    IF ~\E k \in 1..Len(st.inventory) : st.inventory[k].id = id THEN st
    ELSE LET existing == st.inventory[CHOOSE k \in 1..Len(st.inventory) :
                            /\ st.inventory[k].id = id
                            /\ \A j \in 1..(k - 1) : st.inventory[j].id # id]
         IN  IF existing.quantity <= amount
             THEN [st EXCEPT !.inventory = SelectSeq(@, LAMBDA i : i.id # id)]
             ELSE [st EXCEPT !.inventory =
                     [k \in 1..Len(@) |->
                         IF @[k].id = id
                         THEN [@[k] EXCEPT !.quantity = @ - amount] ELSE @[k]]]

\* an addLocation that returns the state as it is for a known id
addLocationUnlessKnown(st, location) ==
    IF \E k \in 1..Len(st.locations) : st.locations[k].id = location.id THEN st
    ELSE [st EXCEPT !.locations = Append(@, location),
                    !.currentLocationId = location.id]

addLocation(st, location) ==
    [st EXCEPT !.locations = IF \E k \in 1..Len(@) : @[k].id = location.id
                             THEN @ ELSE Append(@, location),
               !.currentLocationId = location.id]

setCurrentLocation(st, locationId) == [st EXCEPT !.currentLocationId = locationId]

\* the record of the current location: <<>> for null, <<record>> otherwise
getCurrentLocation(st) ==
    IF st.currentLocationId \in {Null, ""} THEN <<>>
    ELSE IF \E k \in 1..Len(st.locations) : st.locations[k].id = st.currentLocationId
         THEN <<st.locations[CHOOSE k \in 1..Len(st.locations) :
                                /\ st.locations[k].id = st.currentLocationId
                                /\ \A j \in 1..(k - 1) :
                                      st.locations[j].id # st.currentLocationId]>>
         ELSE <<>>

\* an addNpc that replaces the record of a known id
addNpcReplacing(st, npc) ==
    IF \E k \in 1..Len(st.npcs) : st.npcs[k].id = npc.id
    THEN [st EXCEPT !.npcs = [k \in 1..Len(@) |-> IF @[k].id = npc.id THEN npc ELSE @[k]]]
    ELSE [st EXCEPT !.npcs = Append(@, npc)]

addNpc(st, npc) ==
    IF \E k \in 1..Len(st.npcs) : st.npcs[k].id = npc.id
    THEN [st EXCEPT !.npcs =
            [k \in 1..Len(@) |->
                IF @[k].id = npc.id
                THEN [@[k] EXCEPT !.currentLocationId = npc.currentLocationId] ELSE @[k]]]
    ELSE [st EXCEPT !.npcs = Append(@, npc)]

\* an addStoryEvent that keeps the first events
addStoryEventKeepingFirst(st, event) ==
    [st EXCEPT !.storyEvents = SliceFirst(Append(@, event), MaxStoryEvents)]

addStoryEvent(st, event) ==
    [st EXCEPT !.storyEvents = SliceLast(Append(@, event), MaxStoryEvents)]

importanceOrder == [critical |-> 0, major |-> 1, minor |-> 2]

\* a sort by timestamp alone
SortFactsByTime(fs) ==
    LET before(a, b) ==
            \/ fs[a].timestamp < fs[b].timestamp
            \/ fs[a].timestamp = fs[b].timestamp /\ a < b
        rank(a) == 1 + Cardinality({b \in 1..Len(fs) : before(b, a)})
    IN  [k \in 1..Len(fs) |-> fs[CHOOSE a \in 1..Len(fs) : rank(a) = k]]

\* newFacts.sort(...): by importance, then by timestamp; the sort is stable
SortFacts(fs) ==
    LET before(a, b) ==
            \/ importanceOrder[fs[a].importance] < importanceOrder[fs[b].importance]
            \/ /\ importanceOrder[fs[a].importance] = importanceOrder[fs[b].importance]
               /\ \/ fs[a].timestamp < fs[b].timestamp
                  \/ fs[a].timestamp = fs[b].timestamp /\ a < b
        rank(a) == 1 + Cardinality({b \in 1..Len(fs) : before(b, a)})
    IN  [k \in 1..Len(fs) |-> fs[CHOOSE a \in 1..Len(fs) : rank(a) = k]]

\* addStoryFact comparing the texts as they are written
addStoryFactExact(st, fact, importance, id, t) ==
    IF \E k \in 1..Len(st.storyFacts) : st.storyFacts[k].fact = fact
    THEN st
    ELSE LET newFact == [id |-> id, fact |-> fact, importance |-> importance,
                         timestamp |-> t]
             newFacts == Append(st.storyFacts, newFact)
         IN  [st EXCEPT !.storyFacts =
                IF Len(newFacts) > MaxStoryFacts
                THEN SliceFirst(SortFacts(newFacts), MaxStoryFacts)
                ELSE newFacts]

\* id is crypto.randomUUID(), t is Date.now()
addStoryFact(st, fact, importance, id, t) ==
    IF \E k \in 1..Len(st.storyFacts) :
            ToLowerCase(st.storyFacts[k].fact) = ToLowerCase(fact)
    THEN st
    ELSE LET newFact == [id |-> id, fact |-> fact, importance |-> importance,
                         timestamp |-> t]
             newFacts == Append(st.storyFacts, newFact)
         IN  [st EXCEPT !.storyFacts =
                IF Len(newFacts) > MaxStoryFacts
                THEN SliceFirst(SortFacts(newFacts), MaxStoryFacts)
                ELSE newFacts]

\* a store persisted without partialize: the whole state is written
partializeNothing(st) == st

\* partialize: what the persist middleware writes to storage after a set
partialize(st) ==
    [selectedModel |-> st.selectedModel, systemPrompt |-> st.systemPrompt,
     chatHistory |-> st.chatHistory, inventory |-> st.inventory,
     locations |-> st.locations, currentLocationId |-> st.currentLocationId,
     npcs |-> st.npcs, storyEvents |-> st.storyEvents,
     storyFacts |-> st.storyFacts, journal |-> st.journal]

-----------------------------------------------------------------------------
(* useGameMessages: the consumer of one generation.  r is what the consumer *)
(* works on: [store, uuid, gen], gen being the generation's record.  The    *)
(* record's yields, shown, applied, tokens and sysMsgs are history: what    *)
(* the generation has yielded, displayed, applied, stored and reported;     *)
(* parsedFrom is the first identifier the final parse could draw.           *)

ContextCeiling == 20000

\* the truthiness of a parsed value
Truthy(val) ==
    CASE val.t = "boolean" -> val.v
      [] val.t = "number" -> val.v # 0
      [] val.t = "string" -> val.v # ""
      [] val.t \in {"null", "undefined"} -> FALSE
      [] OTHER -> TRUE

\* String(val), as '' + val computes it
RECURSIVE ToText(_)
ToText(val) ==
    CASE val.t = "string" -> val.v
      [] val.t = "number" -> IF val.v < 0 THEN "-" \o ToString(0 - val.v) ELSE ToString(val.v)
      [] val.t = "boolean" -> IF val.v THEN "true" ELSE "false"
      [] val.t = "array" ->
            Join([k \in 1..(2 * Len(val.v) - 1) |->
                    IF k % 2 = 0 THEN ","
                    ELSE LET e == val.v[(k + 1) \div 2] IN
                         IF e.t \in {"null", "undefined"} THEN "" ELSE ToText(e)],
                 1, 2 * Len(val.v) - 1)
      [] val.t = "object" -> "[object Object]"
      [] OTHER -> val.v

\* val.length: -1 stands for undefined, which no comparison holds of
Length(val) == IF val.t \in {"array", "string"} THEN Len(val.v) ELSE -1

Effects(gen) ==
    [yields |-> gen.yields, shown |-> gen.shown, applied |-> gen.applied,
     tokens |-> gen.tokens, sysMsgs |-> gen.sysMsgs]

\* processCommands: the commands applied to the store, in their order
RECURSIVE ApplyCommands(_, _, _, _)
ApplyCommands(r, commands, k, t) ==
    IF k > Len(commands) THEN r
    ELSE LET cmd == commands[k]
             st == r.store
             after ==
                CASE cmd.type = "ADD_ITEM" -> addItem(st, cmd.payload)
                  [] cmd.type = "SET_LOCATION" -> addLocation(st, cmd.payload)
                  [] cmd.type = "ADD_NPC" -> addNpc(st, cmd.payload)
                  [] cmd.type = "STORY_EVENT" -> addStoryEvent(st, cmd.payload)
                  [] cmd.type = "STORY_FACT" ->
                        addStoryFact(st, cmd.payload.fact, cmd.payload.importance, r.uuid, t)
                  [] OTHER -> st
         IN  ApplyCommands([r EXCEPT !.store = after,
                                     !.uuid = IF cmd.type = "STORY_FACT" /\ after # st
                                              THEN @ + 1 ELSE @],
                           commands, k + 1, t)

\* a forEach that went through the commands from the last to the first
processCommandsBackwards(r, commands, t) ==
    ApplyCommands([r EXCEPT !.gen.applied = Append(@, commands)],
                  [k \in 1..Len(commands) |-> commands[Len(commands) + 1 - k]], 1, t)

processCommands(r, commands, t) ==
    ApplyCommands([r EXCEPT !.gen.applied = Append(@, commands)], commands, 1, t)

\* fullText += part.response; const parsed = parseGameResponse(fullText);
\* updateLastMessage(parsed.cleanText)
ShowParsed(r, fullText, parsed) ==
    [r EXCEPT !.gen.fullText = fullText,
              !.gen.yields = @ + 1,
              !.gen.shown = Append(@, parsed.cleanText),
              !.store = updateLastMessage(@, parsed.cleanText),
              !.uuid = @ + parsed.uuids]

\* a consumer that applied the commands of every streamed re-parse
ConsumePartApplying(r, part, t) ==
    IF Truthy(Prop(part, "done"))
    THEN [r EXCEPT !.gen.finalContext = Prop(part, "context"), !.gen.yields = @ + 1]
    ELSE processCommands(
            ShowParsed(r, r.gen.fullText \o ToText(Prop(part, "response")),
                       parseGameResponse(r.gen.fullText \o ToText(Prop(part, "response")),
                                         t, r.uuid)),
            parseGameResponse(r.gen.fullText \o ToText(Prop(part, "response")),
                              t, r.uuid).commands, t)

\* one turn of for await (const part of stream)
ConsumePart(r, part, t) ==
    IF Truthy(Prop(part, "done"))
    THEN [r EXCEPT !.gen.finalContext = Prop(part, "context"), !.gen.yields = @ + 1]
    ELSE ShowParsed(r, r.gen.fullText \o ToText(Prop(part, "response")),
                    parseGameResponse(r.gen.fullText \o ToText(Prop(part, "response")),
                                      t, r.uuid))

RECURSIVE ConsumeParts(_, _, _, _)
ConsumeParts(r, parts, k, t) ==
    IF k > Len(parts) THEN r
    ELSE ConsumeParts(ConsumePart(r, parts[k], t), parts, k + 1, t)

\* setContextVector as the consumer calls it
StoreToken(r, context) ==
    [r EXCEPT !.store = setContextVector(@, context), !.gen.tokens = @ + 1]

\* the final parse shown (when it leaves any text) and its commands applied
ApplyParsed(r, parsed, t) ==
    processCommands([r EXCEPT !.uuid = @ + parsed.uuids,
                              !.gen.parsedFrom = r.uuid,
                              !.store = IF Trim(parsed.cleanText) # ""
                                        THEN updateLastMessage(@, parsed.cleanText) ELSE @],
                    parsed.commands, t)

\* the continuation token kept under the ceiling, dropped at or over it;
\* initializeStory has no branch for a token at or over the ceiling
StoreContext(r, finalContext) ==
    IF Truthy(finalContext) /\ Length(finalContext) # -1
       /\ Length(finalContext) < ContextCeiling
    THEN StoreToken(r, finalContext)
    ELSE IF r.gen.kind = "send" /\ Truthy(finalContext)
            /\ Length(finalContext) >= ContextCeiling
    THEN StoreToken(r, JsonUndefined)
    ELSE r

\* what follows the loop: the final parse, the commands, the continuation token
FinalProcessing(r, t) ==
    IF Trim(r.gen.fullText) = "" THEN r
    ELSE StoreContext(ApplyParsed(r, parseGameResponse(r.gen.fullText, t, r.uuid), t),
                      r.gen.finalContext)

AbortError == [name |-> "AbortError", message |-> "The user aborted a request."]
FetchError == [name |-> "TypeError", message |-> "Failed to fetch"]
ReadError == [name |-> "TypeError", message |-> "network error"]
ParseError == [name |-> "SyntaxError", message |-> "Unexpected token"]
ApiError(status, errText) ==
    [name |-> "Error",
     message |-> "Ollama API Error (" \o ToString(status) \o "): " \o errText]

\* a catch block that reported every error, the abort included
CatchErrorReportingAbort(r, error, t) ==
    [r EXCEPT !.store = addMessage(@, [role |-> "system",
                                       content |-> "Error: " \o error.message,
                                       timestamp |-> t]),
              !.gen.sysMsgs = @ + 1]

\* a catch block that swallowed every error
CatchErrorSilent(r, error, t) == r

\* the catch block of sendMessage and initializeStory
CatchError(r, error, t) ==
    IF error.name = "AbortError" THEN r
    ELSE [r EXCEPT !.store = addMessage(@, [role |-> "system",
                                            content |-> "Error: " \o error.message,
                                            timestamp |-> t]),
                   !.gen.sysMsgs = @ + 1]

\* an abortGeneration that cleared the ref and left the controller alone
abortGenerationForgetting(u, gs) ==
    IF u.abortControllerRef # 0
    THEN [ui |-> [u EXCEPT !.abortControllerRef = 0], gens |-> gs]
    ELSE [ui |-> u, gens |-> gs]

\* abortGeneration: the controller in the ref is aborted and the ref cleared;
\* the controller of generation g is known by g, 0 is null
abortGeneration(u, gs) ==
    IF u.abortControllerRef # 0
    THEN [ui |-> [u EXCEPT !.abortControllerRef = 0],
          gens |-> [gs EXCEPT ![u.abortControllerRef].signal = "aborted",
                              ![u.abortControllerRef].atAbort =
                                    IF @ = <<>> THEN <<Effects(gs[u.abortControllerRef])>>
                                    ELSE @]]
    ELSE [ui |-> u, gens |-> gs]

-----------------------------------------------------------------------------
(* The decoder alone, under every fragmentation of the transport text *)

\* no store operation has been called, nothing has been written to storage
Unset ==
    /\ last = [op |-> "none", arg |-> Null, n |-> 0]
    /\ persisted = Null
    /\ appended = <<>>
    /\ recorded = <<>>

\* nor is a pure function being called on its own
Uncalled == Unset /\ given = <<>> /\ returned = <<>>

\* the transport texts: each a sequence of spans, concatenated on the wire
DecoderScenarios ==
    { <<"{\"a\":1}">>,
      <<"{\"a\":\"}\"}">>,
      <<"{\"a\":\"{\\\"\"}">>,
      <<"{\"a\":{\"b\":1}}">>,
      <<"{\"response\":\"}\",\"done\":true}">>,
      <<"{\"a\":1}", "{\"b\":2}">>,
      <<"{\"a\":1}", "\n", "{\"b\":2}", "\n">>,
      <<"}", "{\"a\":1}">>,
      <<"{a}", "{\"a\":1}">>,
      <<"{\"a\":", "{\"b\":2}">>,
      <<"{\"a\":\"}{}\"}">> }

DecInit ==
    /\ items \in DecoderScenarios
    /\ sent = Join(items, 1, Len(items))
    /\ wire = sent
    /\ dec = NewDecoder
    /\ yielded = <<>>
    /\ dpc = "reading"
    /\ store = InitialStore
    /\ ui = [isPlaying |-> FALSE, mount |-> 0, loading |-> FALSE,
             hasInitialized |-> FALSE, abortControllerRef |-> 0]
    /\ gens = <<>>
    /\ unload = [pending |-> FALSE, model |-> ""]
    /\ now = 0
    /\ uuid = 1
    /\ Uncalled

\* one turn of while (true): the transport delivers the next n characters
DecRead(n) ==
    /\ dpc = "reading"
    /\ n \in 1..Len(wire)
    /\ LET d == DecodeChunk(dec, Substring(wire, 0, n)) IN
       /\ dec' = d
       /\ yielded' = yielded \o d.out
    /\ wire' = Substring(wire, n, Len(wire))
    /\ UNCHANGED <<sent, items, dpc>>
    /\ UNCHANGED <<sessVars, memVars, callVars>>

\* the transport signals completion
DecDone ==
    /\ dpc = "reading"
    /\ wire = ""
    /\ LET d == DecodeEnd(dec) IN
       /\ dec' = d
       /\ yielded' = yielded \o d.out
    /\ dpc' = "finished"
    /\ UNCHANGED <<wire, sent, items>>
    /\ UNCHANGED <<sessVars, memVars, callVars>>

DecNext == (\E n \in 1..Len(wire) : DecRead(n)) \/ DecDone

SpecDecoder == DecInit /\ [][DecNext]_vars

-----------------------------------------------------------------------------
(* One browser session: GameSetup, GameInterface and the generations the    *)
(* hook starts.  A handler runs to its first await in one step; what the    *)
(* transport then does to a generation (the response arrives, a fragment is *)
(* read, the stream ends or fails) is a step each, and the generator and    *)
(* its consumer run in that step until the generator awaits again.          *)

MaxGenerations == 2
MaxTicks == 2
TickMs == 100000

Models == <<"llama3", "mistral">>
Inputs == {"go north"}

\* what the server may answer: response bodies in the fragments the transport
\* may deliver them in (a read returns one or more fragments)
Responses ==
    { [ok |-> TRUE, status |-> 200,
       body |-> << "{\"response\":\"Hi [EVENT: Fire\",\"done\":false}\n",
                   "{\"response\":\"] [ITEM_ADD: Key|Old|2]\",\"done\":false}\n",
                   "{\"done\":true,\"context\":[1,2]}\n" >>],
      [ok |-> TRUE, status |-> 200,
       body |-> << "{x}\n",
                   "{\"response\":\" \",\"done\":false}\n",
                   "{\"done\":true,\"context\":[3]}" >>],
      [ok |-> TRUE, status |-> 200,
       body |-> << "{\"response\":\"Go",
                   " on\",\"done\":false}\n{\"done\":true,\"context\":[4]}\n" >>],
      [ok |-> FALSE, status |-> 404,
       body |-> << "{\"error\":\"model not found\"}" >>] }

InFlight(gen) == gen.phase \in {"fetching", "errbody", "reading"}

\* OllamaService.generateResponseStream(...) called and run to await fetch(...)
NewGeneration(kind, u, st, t) ==
    [kind |-> kind, inst |-> u.mount, model |-> st.selectedModel, signal |-> "live",
     phase |-> "fetching", conn |-> "open", status |-> 0, body |-> <<>>,
     dec |-> NewDecoder, fullText |-> "", finalContext |-> JsonUndefined,
     startedAt |-> t, yields |-> 0, shown |-> <<>>, applied |-> <<>>, tokens |-> 0,
     sysMsgs |-> 0, atAbort |-> <<>>, parsedFrom |-> 0]

\* no GameInterface is mounted; mount counts the instances mounted so far
Unmounted(mount) ==
    [isPlaying |-> FALSE, mount |-> mount, loading |-> FALSE,
     hasInitialized |-> FALSE, abortControllerRef |-> 0]

\* await sendMessage(...) or await initializeStory() returned: setLoading(false)
\* in the component that awaited, which does nothing once it is unmounted
Returned(u, gen) ==
    IF u.isPlaying /\ u.mount = gen.inst THEN [u EXCEPT !.loading = FALSE] ELSE u

\* S is [store, ui, gens, uuid] after the synchronous part of a handler that
\* called abortGeneration with the controller of generation ref in the ref.
\* The fetch or read that generation awaits rejects with AbortError when its
\* signal is aborted and the handler has returned: the generator rethrows,
\* the consumer's catch block runs
Unwind(S, ref, t) ==
    IF ref = 0 THEN S
    ELSE IF ~InFlight(S.gens[ref]) \/ S.gens[ref].signal # "aborted" THEN S
    ELSE LET r == CatchError([store |-> S.store, uuid |-> S.uuid, gen |-> S.gens[ref]],
                             AbortError, t)
         IN  [store |-> r.store, uuid |-> r.uuid,
              ui |-> Returned(S.ui, r.gen),
              gens |-> [S.gens EXCEPT ![ref] = [r.gen EXCEPT !.phase = "cancelled",
                                                             !.conn = "closed"]]]

\* a sendMessage that appended its placeholder before the player's message
sendMessagePlaceholderFirst(S, input, t) ==
    IF Trim(input) = "" \/ S.store.selectedModel = "" THEN S
    ELSE LET a == abortGeneration(S.ui, S.gens)
             g == Len(S.gens) + 1
             userMsg == [role |-> "user", content |-> input, timestamp |-> t]
             streamMsg == [role |-> "assistant", content |-> "", timestamp |-> t]
         IN  [S EXCEPT !.ui = [a.ui EXCEPT !.abortControllerRef = g],
                       !.store = addMessage(addMessage(@, streamMsg), userMsg),
                       !.gens = Append(a.gens, NewGeneration("send", a.ui, S.store, t))]

\* sendMessage to its first await
sendMessage(S, input, t) ==
    IF Trim(input) = "" \/ S.store.selectedModel = "" THEN S
    ELSE LET a == abortGeneration(S.ui, S.gens)
             g == Len(S.gens) + 1
             userMsg == [role |-> "user", content |-> input, timestamp |-> t]
             streamMsg == [role |-> "assistant", content |-> "", timestamp |-> t]
         IN  [S EXCEPT !.ui = [a.ui EXCEPT !.abortControllerRef = g],
                       !.store = addMessage(addMessage(@, userMsg), streamMsg),
                       !.gens = Append(a.gens, NewGeneration("send", a.ui, S.store, t))]

\* initializeStory to its first await
initializeStory(S, t) ==
    IF S.store.selectedModel = "" \/ Len(S.store.chatHistory) > 0 THEN S
    ELSE LET a == abortGeneration(S.ui, S.gens)
             g == Len(S.gens) + 1
             streamMsg == [role |-> "assistant", content |-> "", timestamp |-> t]
         IN  [S EXCEPT !.ui = [a.ui EXCEPT !.abortControllerRef = g],
                       !.store = addMessage(@, streamMsg),
                       !.gens = Append(a.gens, NewGeneration("init", a.ui, S.store, t))]

Here == [store |-> store, ui |-> ui, gens |-> gens, uuid |-> uuid]

Becomes(S) == store' = S.store /\ ui' = S.ui /\ gens' = S.gens /\ uuid' = S.uuid

\* the page is loaded: nothing is mounted, nothing is being decoded
Loaded ==
    /\ store = InitialStore
    /\ ui = Unmounted(0)
    /\ gens = <<>>
    /\ unload = [pending |-> FALSE, model |-> ""]
    /\ now = 0
    /\ uuid = 1
    /\ wire = "" /\ sent = "" /\ items = <<>> /\ dec = NewDecoder
    /\ yielded = <<>> /\ dpc = "finished"

Init == Loaded /\ Uncalled

\* GameSetup's effect: the list of models arrived and none is selected yet,
\* the first of the list is
SetupModelsLoaded ==
    /\ ~ui.isPlaying
    /\ store.selectedModel = ""
    /\ store' = setModel(store, Models[1])
    /\ UNCHANGED <<ui, gens, unload, now, uuid>>
    /\ UNCHANGED <<decVars, memVars, callVars>>

\* GameSetup's Start: App.handleStart mounts GameInterface, whose startStory
\* effect runs
HandleStart ==
    /\ ~ui.isPlaying
    /\ store.selectedModel # ""
    /\ Len(gens) < MaxGenerations
    /\ LET mounted == [Unmounted(ui.mount + 1) EXCEPT !.isPlaying = TRUE]
           start == Len(store.chatHistory) = 0 /\ store.selectedModel # ""
                    /\ ~mounted.loading /\ ~mounted.hasInitialized
           S0 == [Here EXCEPT !.ui = IF start
                                     THEN [mounted EXCEPT !.hasInitialized = TRUE,
                                                          !.loading = TRUE]
                                     ELSE mounted]
           S1 == IF start THEN initializeStory(S0, now) ELSE S0
       IN  Becomes(IF start /\ S1.gens = S0.gens
                   THEN [S1 EXCEPT !.ui.loading = FALSE] ELSE S1)
    /\ UNCHANGED <<unload, now>>
    /\ UNCHANGED <<decVars, memVars, callVars>>

\* handleSend
HandleSend(input) ==
    /\ ui.isPlaying
    /\ ~(Trim(input) = "" \/ store.selectedModel = "" \/ ui.loading)
    /\ Len(gens) < MaxGenerations
    /\ LET ref == ui.abortControllerRef
           S0 == [Here EXCEPT !.ui.loading = TRUE]
           S1 == sendMessage(S0, input, now)
       IN  Becomes(IF S1.gens = S0.gens THEN [S1 EXCEPT !.ui.loading = FALSE]
                   ELSE Unwind(S1, ref, now))
    /\ UNCHANGED <<unload, now>>
    /\ UNCHANGED <<decVars, memVars, callVars>>

\* handleNewGame: abortGeneration(); clearGame(); onBackToSetup()
HandleNewGame ==
    /\ ui.isPlaying
    /\ LET ref == ui.abortControllerRef
           a == abortGeneration(ui, gens)
           S == [Here EXCEPT !.store = clearGame(@), !.gens = a.gens,
                             !.ui = Unmounted(ui.mount)]
       IN  Becomes(Unwind(S, ref, now))
    /\ UNCHANGED <<unload, now>>
    /\ UNCHANGED <<decVars, memVars, callVars>>

\* the model select's onChange, to its await of unloadModel
ChangeModel(newModel) ==
    /\ ui.isPlaying
    /\ ~unload.pending
    /\ newModel # store.selectedModel
    /\ IF store.selectedModel # "" /\ store.selectedModel # newModel
       THEN LET ref == ui.abortControllerRef
                a == abortGeneration(ui, gens)
            IN  /\ Becomes(Unwind([Here EXCEPT !.ui = a.ui, !.gens = a.gens], ref, now))
                /\ unload' = [pending |-> TRUE, model |-> newModel]
       ELSE /\ store' = setModel(store, newModel)
            /\ UNCHANGED <<ui, gens, uuid, unload>>
    /\ UNCHANGED now
    /\ UNCHANGED <<decVars, memVars, callVars>>

\* unloadModel returned (it never throws): setModel(newModel)
UnloadDone ==
    /\ unload.pending
    /\ store' = setModel(store, unload.model)
    /\ unload' = [pending |-> FALSE, model |-> ""]
    /\ UNCHANGED <<ui, gens, now, uuid>>
    /\ UNCHANGED <<decVars, memVars, callVars>>

Run(g) == [store |-> store, uuid |-> uuid, gen |-> gens[g]]

\* the generation ended with phase and conn: the store, the identifiers and
\* the awaiting component as its consumer leaves them
Ends(g, r, phase, conn) ==
    /\ store' = r.store
    /\ uuid' = r.uuid
    /\ gens' = [gens EXCEPT ![g] = [r.gen EXCEPT !.phase = phase, !.conn = conn]]
    /\ ui' = Returned(ui, r.gen)

\* fetch resolved with the response head
FetchResponds(g, resp) ==
    /\ gens[g].phase = "fetching"
    /\ gens' = [gens EXCEPT ![g].phase = IF resp.ok THEN "reading" ELSE "errbody",
                            ![g].status = resp.status,
                            ![g].body = resp.body]
    /\ UNCHANGED <<store, ui, unload, now, uuid>>
    /\ UNCHANGED <<decVars, memVars, callVars>>

\* fetch rejected: the server cannot be reached
FetchFails(g) ==
    /\ gens[g].phase = "fetching"
    /\ Ends(g, CatchError(Run(g), FetchError, now), "failed", "closed")
    /\ UNCHANGED <<unload, now>>
    /\ UNCHANGED <<decVars, memVars, callVars>>

\* !response.ok: response.text() read the body, the generator throws
ErrorBodyRead(g) ==
    /\ gens[g].phase = "errbody"
    /\ LET errText == Join(gens[g].body, 1, Len(gens[g].body)) IN
       Ends(g, CatchError(Run(g), ApiError(gens[g].status, errText), now),
            "failed", "closed")
    /\ UNCHANGED <<unload, now>>
    /\ UNCHANGED <<decVars, memVars, callVars>>

\* reader.read() gave the next n fragments: the scan, and a turn of the
\* consumer's loop for every message it yields
ReadChunk(g, n) ==
    /\ gens[g].phase = "reading"
    /\ n \in 1..Len(gens[g].body)
    /\ \E d \in {DecodeChunk(gens[g].dec, Join(gens[g].body, 1, n))} :
       \E r \in {ConsumeParts(Run(g), d.out, 1, now)} :
          IF d.threw
          THEN Ends(g, CatchError(r, ParseError, now), "failed", gens[g].conn)
          ELSE /\ store' = r.store
               /\ uuid' = r.uuid
               /\ gens' = [gens EXCEPT ![g] =
                             [r.gen EXCEPT !.dec = d,
                                           !.body = SubSeq(@, n + 1, Len(@))]]
               /\ ui' = ui
    /\ UNCHANGED <<unload, now>>
    /\ UNCHANGED <<decVars, memVars, callVars>>

\* reader.read() gave done: the last parse, the loop's end, the final
\* processing; the consumer returns true
ReadDone(g) ==
    /\ gens[g].phase = "reading"
    /\ gens[g].body = <<>>
    /\ \E d \in {DecodeEnd(gens[g].dec)} :
          Ends(g, FinalProcessing([ConsumeParts(Run(g), d.out, 1, now) EXCEPT !.gen.dec = d],
                                  now),
               "done", "closed")
    /\ UNCHANGED <<unload, now>>
    /\ UNCHANGED <<decVars, memVars, callVars>>

\* reader.read() rejected: the connection broke
ReadFails(g) ==
    /\ gens[g].phase = "reading"
    /\ Ends(g, CatchError(Run(g), ReadError, now), "failed", "closed")
    /\ UNCHANGED <<unload, now>>
    /\ UNCHANGED <<decVars, memVars, callVars>>

\* time passes
Tick ==
    /\ now < MaxTicks * TickMs
    /\ now' = now + TickMs
    /\ UNCHANGED <<store, ui, gens, unload, uuid>>
    /\ UNCHANGED <<decVars, memVars, callVars>>

Next ==
    \/ SetupModelsLoaded
    \/ HandleStart
    \/ \E input \in Inputs : HandleSend(input)
    \/ HandleNewGame
    \/ \E k \in 1..Len(Models) : ChangeModel(Models[k])
    \/ UnloadDone
    \/ \E g \in 1..Len(gens) : \E resp \in Responses : FetchResponds(g, resp)
    \/ \E g \in 1..Len(gens) : FetchFails(g)
    \/ \E g \in 1..Len(gens) : ErrorBodyRead(g)
    \/ \E g \in 1..Len(gens) : \E n \in 1..Len(gens[g].body) : ReadChunk(g, n)
    \/ \E g \in 1..Len(gens) : ReadDone(g)
    \/ \E g \in 1..Len(gens) : ReadFails(g)

Spec == Init /\ [][Next]_vars

\* the first generation of a session, with the clock
NextTimed ==
    \/ SetupModelsLoaded
    \/ gens = <<>> /\ HandleStart
    \/ \E g \in 1..Len(gens) : \E resp \in Responses : FetchResponds(g, resp)
    \/ \E g \in 1..Len(gens) : FetchFails(g)
    \/ \E g \in 1..Len(gens) : ErrorBodyRead(g)
    \/ \E g \in 1..Len(gens) : \E n \in 1..Len(gens[g].body) : ReadChunk(g, n)
    \/ \E g \in 1..Len(gens) : ReadDone(g)
    \/ \E g \in 1..Len(gens) : ReadFails(g)
    \/ Tick

SpecTimed == Init /\ [][NextTimed]_vars

-----------------------------------------------------------------------------
(* The decoder iteration by iteration: a step is one turn of the scan loop,  *)
(* so that the loop's end is something the transport text decides.  dec      *)
(* holds the scan index i beside the generator's locals, and finals, the     *)
(* number of final whole-buffer parses attempted so far.                     *)

ScanStart ==
    [buffer |-> "", brackets |-> 0, inString |-> FALSE, escaped |-> FALSE,
     startIdx |-> -1, out |-> <<>>, threw |-> FALSE, off |-> 0, touched |-> {},
     i |-> 0, finals |-> 0]

ScanInit ==
    /\ items \in DecoderScenarios
    /\ sent = Join(items, 1, Len(items))
    /\ wire = sent
    /\ dec = ScanStart
    /\ yielded = <<>>
    /\ dpc = "reading"
    /\ store = InitialStore
    /\ ui = Unmounted(0)
    /\ gens = <<>>
    /\ unload = [pending |-> FALSE, model |-> ""]
    /\ now = 0
    /\ uuid = 1
    /\ Uncalled

\* reader.read() gave a fragment: buffer += chunk; let i = 0
ScanRead(n) ==
    /\ dpc = "reading"
    /\ n \in 1..Len(wire)
    /\ dec' = [dec EXCEPT !.buffer = @ \o Substring(wire, 0, n), !.i = 0, !.out = <<>>]
    /\ wire' = Substring(wire, n, Len(wire))
    /\ dpc' = "scanning"
    /\ UNCHANGED <<sent, items, yielded>>
    /\ UNCHANGED <<sessVars, memVars, callVars>>

\* the index the loop goes on with: i++, after i = -1 when a span was cut
NextIndex(d, e) == IF e.off # d.off THEN 0 ELSE d.i + 1

\* one turn of while (i < buffer.length)
ScanStep ==
    /\ dpc = "scanning"
    /\ dec.i < Len(dec.buffer)
    /\ \E e \in {ScanChar([dec EXCEPT !.out = <<>>], dec.i)} :
          /\ dec' = [e EXCEPT !.i = NextIndex(dec, e)]
          /\ yielded' = yielded \o e.out
    /\ UNCHANGED <<wire, sent, items, dpc>>
    /\ UNCHANGED <<sessVars, memVars, callVars>>

\* i < buffer.length is false: back to await reader.read()
ScanExit ==
    /\ dpc = "scanning"
    /\ dec.i >= Len(dec.buffer)
    /\ dpc' = "reading"
    /\ UNCHANGED <<wire, sent, items, dec, yielded>>
    /\ UNCHANGED <<sessVars, memVars, callVars>>

\* reader.read() gave done: the final parse when buffer.trim() is not empty,
\* then break; an error that leaves the generator makes it fail
ScanDone ==
    /\ dpc = "reading"
    /\ wire = ""
    /\ \E d \in {DecodeEnd(dec)} :
          /\ dec' = [d EXCEPT !.finals = IF Trim(dec.buffer) # "" THEN @ + 1 ELSE @]
          /\ yielded' = yielded \o d.out
          /\ dpc' = IF d.threw THEN "failed" ELSE "finished"
    /\ UNCHANGED <<wire, sent, items>>
    /\ UNCHANGED <<sessVars, memVars, callVars>>

ScanNext ==
    \/ \E n \in 1..Len(wire) : ScanRead(n)
    \/ ScanStep
    \/ ScanExit
    \/ ScanDone

SpecScan == ScanInit /\ [][ScanNext]_vars

-----------------------------------------------------------------------------
(* The store driven through its operations: any operation, with any of a    *)
(* few arguments, in any order, on a store that earlier calls have filled,  *)
(* together with the two callers that handle the continuation token: a      *)
(* whole sendMessage and the Optimize Memory button.  No generation is kept *)
(* in gens here: a sendMessage runs from its call to its return in a step.  *)

MaxCalls == 2
MaxAppends == 60
MaxRecords == 12

SeedMessage(k) == [role |-> "user", content |-> ToString(k), timestamp |-> k]
SeedEvent(k) == [id |-> k, description |-> ToString(k), timestamp |-> k]
SeedFact(k) == "Fact number " \o ToString(k)

\* the store after the first k - 1 calls of a seed were made: the k-th
\* addMessage, addStoryEvent and addStoryFact of the seed, each at time k
RECURSIVE Seeded(_, _, _)
Seeded(st, seed, k) ==
    IF \/ k > seed.messages /\ k > seed.events /\ k > Len(seed.facts)
       \/ Len(st.chatHistory) > MAX_CHAT_HISTORY
    THEN st
    ELSE LET a == IF k <= seed.messages THEN addMessage(st, SeedMessage(k)) ELSE st
             b == IF k <= seed.events THEN addStoryEvent(a, SeedEvent(k)) ELSE a
         IN  Seeded(IF k <= Len(seed.facts)
                    THEN addStoryFact(b, SeedFact(k), seed.facts[k], k, k) ELSE b,
                    seed, k + 1)

Seeds ==
    { [messages |-> 0, events |-> 0, facts |-> <<>>],
      [messages |-> 49, events |-> 9,
       facts |-> [k \in 1..20 |-> IF k = 1 THEN "critical" ELSE "minor"]],
      [messages |-> 50, events |-> 10,
       facts |-> [k \in 1..20 |-> IF k % 4 = 0 THEN "critical"
                                  ELSE IF k % 4 = 2 THEN "major" ELSE "minor"]] }

\* a decoded message of the stream, and a continuation token of n elements
TextPart(response) ==
    [t |-> "object", v |-> << [k |-> "response", v |-> [t |-> "string", v |-> response]],
                              [k |-> "done", v |-> [t |-> "boolean", v |-> FALSE]] >>]

Token(n) == [t |-> "array", v |-> [k \in 1..n |-> [t |-> "number", v |-> 7]]]

DonePart(context) ==
    [t |-> "object", v |-> << [k |-> "done", v |-> [t |-> "boolean", v |-> TRUE]],
                              [k |-> "context", v |-> context] >>]

\* what a stream may yield to sendMessage's loop
Streams ==
    { << TextPart("[ITEM_ADD: Torch|A torch|1] Ok"), DonePart(Token(2)) >>,
      << TextPart("[LOCATION: Cave|Dark][LOCATION: Inn|Warm]"
                  \o "[NPC: Bob|Cave|A guard][NPC: Ann|Inn|A bard] Ok"),
         DonePart(Token(ContextCeiling)) >>,
      << TextPart(" "), DonePart(Token(25000)) >>,
      << TextPart("[ITEM_ADD: Key|Old|0] Ok"), DonePart(Token(2)) >> }

ItemsOffered ==
    { [id |-> "torch", name |-> "Torch", description |-> "A torch", quantity |-> 1],
      [id |-> "torch", name |-> "Old Torch", description |-> "Burnt", quantity |-> 2],
      [id |-> "key", name |-> "Key", description |-> "Old", quantity |-> 1] }

LocationsOffered ==
    { [id |-> "cave", name |-> "Cave", description |-> "Dark", visitedAt |-> 0],
      [id |-> "cave", name |-> "The Cave", description |-> "Wet", visitedAt |-> 1],
      [id |-> "inn", name |-> "Inn", description |-> "Warm", visitedAt |-> 0] }

NpcsOffered ==
    { [id |-> "bob", name |-> "Bob", currentLocationId |-> "cave",
       description |-> "A guard", firstMetAt |-> 0],
      [id |-> "bob", name |-> "Robert", currentLocationId |-> "inn",
       description |-> "A thief", firstMetAt |-> 1],
      [id |-> "ann", name |-> "Ann", currentLocationId |-> Null,
       description |-> "A mysterious figure", firstMetAt |-> 0] }

StoreInit ==
    /\ \E seed \in Seeds :
          /\ store = setModel(Seeded(InitialStore, seed, 1), Models[1])
          /\ now = Len(seed.facts)
          /\ uuid = Len(seed.facts) + 1
    /\ ui = [Unmounted(1) EXCEPT !.isPlaying = TRUE]
    /\ gens = <<>>
    /\ unload = [pending |-> FALSE, model |-> ""]
    /\ Uncalled
    /\ wire = "" /\ sent = "" /\ items = <<>> /\ dec = NewDecoder
    /\ yielded = <<>> /\ dpc = "finished"

\* an operation was called with arg and left the store st; the persist
\* middleware writes the projection of the state after every set
Called(op, arg, st) ==
    /\ store' = st
    /\ last' = [op |-> op, arg |-> arg, n |-> last.n + 1]
    /\ persisted' = partialize(st)
    /\ UNCHANGED <<ui, gens, unload>>
    /\ UNCHANGED <<decVars, callVars>>

AddMessage(message) ==
    /\ Called("addMessage", message, addMessage(store, message))
    /\ appended' = Append(appended, message)
    /\ UNCHANGED <<now, uuid, recorded>>

UpdateLastMessage(content) ==
    /\ Called("updateLastMessage", content, updateLastMessage(store, content))
    /\ UNCHANGED <<now, uuid, appended, recorded>>

TrimChatHistory(maxMessages) ==
    /\ Called("trimChatHistory", maxMessages, trimChatHistory(store, maxMessages))
    /\ UNCHANGED <<now, uuid, appended, recorded>>

SetContextVector(context) ==
    /\ Called("setContextVector", context, setContextVector(store, context))
    /\ UNCHANGED <<now, uuid, appended, recorded>>

ClearGame ==
    /\ Called("clearGame", Null, clearGame(store))
    /\ UNCHANGED <<now, uuid, appended, recorded>>

AddItem(newItem) ==
    /\ Called("addItem", newItem, addItem(store, newItem))
    /\ UNCHANGED <<now, uuid, appended, recorded>>

RemoveItem(id, amount) ==
    /\ Called("removeItem", [id |-> id, amount |-> amount], removeItem(store, id, amount))
    /\ UNCHANGED <<now, uuid, appended, recorded>>

AddLocation(location) ==
    /\ Called("addLocation", location, addLocation(store, location))
    /\ UNCHANGED <<now, uuid, appended, recorded>>

SetCurrentLocation(locationId) ==
    /\ Called("setCurrentLocation", locationId, setCurrentLocation(store, locationId))
    /\ UNCHANGED <<now, uuid, appended, recorded>>

AddNpc(npc) ==
    /\ Called("addNpc", npc, addNpc(store, npc))
    /\ UNCHANGED <<now, uuid, appended, recorded>>

AddStoryEvent(event) ==
    /\ Called("addStoryEvent", event, addStoryEvent(store, event))
    /\ recorded' = Append(recorded, event)
    /\ uuid' = uuid + 1
    /\ UNCHANGED <<now, appended>>

\* addStoryFact at time t, the clock's reading or the millisecond after it
AddStoryFact(fact, importance, t) ==
    /\ Called("addStoryFact",
              [id |-> uuid, fact |-> fact, importance |-> importance, timestamp |-> t],
              addStoryFact(store, fact, importance, uuid, t))
    /\ now' = t
    /\ uuid' = uuid + 1
    /\ UNCHANGED <<appended, recorded>>

\* the Optimize Memory button: trimChatHistory(20); setContextVector(undefined)
OptimizeMemory ==
    /\ Called("optimizeMemory", 20,
              setContextVector(trimChatHistory(store, 20), JsonUndefined))
    /\ UNCHANGED <<now, uuid, appended, recorded>>

\* a whole sendMessage(input) that nothing interrupts: its two messages, the
\* loop over the parts the stream yields, the final processing
Exchange(input, parts) ==
    /\ Trim(input) # "" /\ store.selectedModel # ""
    /\ \E S \in {sendMessage(Here, input, now)} :
       \E r \in {FinalProcessing(
                    ConsumeParts([store |-> S.store, uuid |-> S.uuid,
                                  gen |-> S.gens[Len(S.gens)]], parts, 1, now), now)} :
          /\ Called("sendMessage",
                    [input |-> input, fullText |-> r.gen.fullText,
                     offered |-> Length(r.gen.finalContext)],
                    r.store)
          /\ uuid' = r.uuid
    /\ UNCHANGED <<now, appended, recorded>>

StoreNext ==
    \/ /\ last.n < MaxCalls
       /\ AddMessage([role |-> "user", content |-> "look", timestamp |-> now])
    \/ /\ last.n < MaxCalls
       /\ UpdateLastMessage("You look around.")
    \/ /\ last.n < MaxCalls
       /\ \E maxMessages \in {0, 2, 20} : TrimChatHistory(maxMessages)
    \/ /\ last.n < MaxCalls
       /\ SetContextVector(JsonUndefined)
    \/ /\ last.n < MaxCalls
       /\ ClearGame
    \/ /\ last.n < MaxCalls
       /\ \E newItem \in ItemsOffered : AddItem(newItem)
    \/ /\ last.n < MaxCalls
       /\ \E id \in {"torch", "key"} : RemoveItem(id, 1)
    \/ /\ last.n < MaxCalls
       /\ \E location \in LocationsOffered : AddLocation(location)
    \/ /\ last.n < MaxCalls
       /\ \E locationId \in {"cave", "inn"} : SetCurrentLocation(locationId)
    \/ /\ last.n < MaxCalls
       /\ \E npc \in NpcsOffered : AddNpc(npc)
    \/ /\ last.n < MaxCalls
       /\ AddStoryEvent([id |-> uuid, description |-> "Fire", timestamp |-> now])
    \/ /\ last.n < MaxCalls
       /\ \E fact \in {"The bridge is out", "FACT NUMBER 2"} :
             \E importance \in {"critical", "major", "minor"} :
                \E t \in {now, now + 1} : AddStoryFact(fact, importance, t)
    \/ /\ last.n < MaxCalls
       /\ OptimizeMemory
    \/ /\ last.n < MaxCalls
       /\ \E input \in Inputs : \E parts \in Streams : Exchange(input, parts)

SpecStore == StoreInit /\ [][StoreNext]_vars

\* addMessage and addStoryEvent alone, called again and again on the initial
\* store; the k-th message and the k-th event carry k
AppendNext ==
    \/ /\ Len(appended) < MaxAppends
       /\ AddMessage(SeedMessage(Len(appended) + 1))
    \/ /\ Len(recorded) < MaxRecords
       /\ AddStoryEvent(SeedEvent(Len(recorded) + 1))

SpecAppend == Init /\ [][AppendNext]_vars

-----------------------------------------------------------------------------
(* parseGameResponse called on its own, on a text made of a head, a tag     *)
(* (none, once, or twice in a row) and a tail.  The heads and the tails     *)
(* hold no tag.                                                             *)

\* field1|field2|field3
RECURSIVE FieldsText(_)
FieldsText(fields) ==
    IF Len(fields) = 0 THEN ""
    ELSE IF Len(fields) = 1 THEN fields[1]
    ELSE fields[1] \o "|" \o FieldsText(Tail(fields))

\* [KEYWORD: field1|field2|field3], as SYSTEM_INSTRUCTION_SUFFIX writes a tag
TagText(tag) == "[" \o tag.kw \o ": " \o FieldsText(tag.fields) \o "]"

NoTag == [kw |-> "", fields |-> <<>>]

TagsGiven ==
    { NoTag,
      [kw |-> "ITEM_ADD", fields |-> <<"Rusty Key", "An old key", "1">>],
      [kw |-> "ADD_ITEM", fields |-> <<"Rope">>],
      [kw |-> "item_add", fields |-> <<" RUSTY  key ", "Old">>],
      [kw |-> "ITEM_ADD", fields |-> <<"\"Rusty Key\"">>],
      [kw |-> "ITEM_ADD", fields |-> <<"\"Rusty Key\"", "\"An old key\"", "\"1\"">>],
      [kw |-> "LOCATION", fields |-> <<"Dark Cave", "A cave: wet, cold">>],
      [kw |-> "Location", fields |-> <<"Inn">>],
      [kw |-> "NPC", fields |-> <<"Bob", "Dark Cave", "A guard">>],
      [kw |-> "NPC", fields |-> <<"Ann">>],
      [kw |-> "EVENT", fields |-> <<"The fire spreads">>],
      [kw |-> "ITEM_ADD", fields |-> <<" ">>],
      [kw |-> "LOCATION", fields |-> <<"  ", "Dark">>],
      [kw |-> "NPC", fields |-> <<" ", "Inn", "A bard">>],
      [kw |-> "EVENT", fields |-> <<" ">>],
      [kw |-> "QUEST", fields |-> <<"Find it">>] }

HeadsGiven == {"", "  ", "Hi. "}

\* narrative the item patterns, the location patterns, the fact patterns
\* match, and narrative none of them matches
ItemTail == " You now have the sword."
LocationTail == " Then you enter the Old Mill."
FactTail == " You discover that the bridge was destroyed long ago."
TailsGiven == {"", " You grab it.", ItemTail, LocationTail, ItemTail \o LocationTail, FactTail}

TextOf(g) ==
    g.head \o (IF g.tag = NoTag THEN "" ELSE TagText(g.tag))
           \o (IF g.tag # NoTag /\ g.twice THEN TagText(g.tag) ELSE "")
           \o g.tail

ParserInit ==
    /\ Loaded /\ Unset
    /\ given \in [head : HeadsGiven, tag : TagsGiven, twice : BOOLEAN, tail : TailsGiven]
    /\ returned = <<>>

ParseCalled ==
    /\ returned = <<>>
    /\ returned' = <<parseGameResponse(TextOf(given), now, uuid)>>
    /\ UNCHANGED <<given, decVars, sessVars, memVars>>

SpecParser == ParserInit /\ [][ParseCalled]_vars

-----------------------------------------------------------------------------
(* buildContextSummary called on its own *)

LocationsGiven == {<<>>, <<[name |-> "Inn"]>>}

InventoriesGiven == {<<>>, <<[name |-> "Torch"]>>, <<[name |-> "Torch"], [name |-> "Key"]>>}

NpcsGiven ==
    { <<>>, <<[name |-> "Bob", description |-> "A guard"]>>,
      <<[name |-> "Bob", description |-> "A guard"],
        [name |-> "Ann", description |-> "A bard"]>> }

EventsGiven ==
    {<<>>, <<[description |-> "Fire"]>>, <<[description |-> "Fire"], [description |-> "Rain"]>>}

FactsGiven ==
    { <<>>,
      <<[fact |-> "The well is dry", importance |-> "minor"]>>,
      <<[fact |-> "The bridge is out", importance |-> "major"]>>,
      <<[fact |-> "The king is dead", importance |-> "critical"],
        [fact |-> "The well is dry", importance |-> "minor"]>>,
      <<[fact |-> "The bridge is out", importance |-> "major"],
        [fact |-> "The king is dead", importance |-> "critical"]>> }

SummaryInit ==
    /\ Loaded /\ Unset
    /\ given \in [location : LocationsGiven, inventory : InventoriesGiven,
                  npcs : NpcsGiven, events : EventsGiven, facts : FactsGiven]
    /\ returned = <<>>

SummaryCalled ==
    /\ returned = <<>>
    /\ returned' = <<buildContextSummary(given.location, given.inventory, given.npcs,
                                         given.events, given.facts)>>
    /\ UNCHANGED <<given, decVars, sessVars, memVars>>

SpecSummary == SummaryInit /\ [][SummaryCalled]_vars

-----------------------------------------------------------------------------
(* detectMovementIntent called on its own, on an input made of a subject,   *)
(* a phrase and an object                                                   *)

SubjectsGiven == {"I ", "i ", "  I ", "We ", ""}

PhrasesGiven ==
    {"arrive at", "get to", "enter", "arrive and need to go to", "go to", "return to",
     "head back to", "walk", "visit", "look around", "look"}

ObjectsGiven == {"", "the tavern", "the Old Mill to see Bob", "my home", "my room"}

InputOf(g) == g.subject \o g.phrase \o (IF g.object = "" THEN "" ELSE " " \o g.object)

IntentInit ==
    /\ Loaded /\ Unset
    /\ given \in [subject : SubjectsGiven, phrase : PhrasesGiven, object : ObjectsGiven]
    /\ returned = <<>>

IntentCalled ==
    /\ returned = <<>>
    /\ returned' = <<detectMovementIntent(InputOf(given))>>
    /\ UNCHANGED <<given, decVars, sessVars, memVars>>

SpecIntent == IntentInit /\ [][IntentCalled]_vars

-----------------------------------------------------------------------------
(* The final processing of sendMessage called on its own: the text a        *)
(* generation has accumulated, made of up to two tags and a narrative, is   *)
(* parsed and its commands are applied to a store that is new or knows the  *)
(* Inn already.                                                             *)

TagsApplied ==
    { NoTag,
      [kw |-> "ITEM_ADD", fields |-> <<"Rusty Key", "An old key", "1">>],
      [kw |-> "LOCATION", fields |-> <<"Dark Cave", "A cave: wet, cold">>],
      [kw |-> "Location", fields |-> <<"Inn">>],
      [kw |-> "NPC", fields |-> <<"Bob", "Dark Cave", "A guard">>],
      [kw |-> "EVENT", fields |-> <<"The fire spreads">>] }

\* narrative with two arrival phrases: of the second pattern and then of the
\* first, of the first pattern twice, and with a name the filter drops first
StandingThenEnter == " You are standing in Great Hall. Then you enter the Old Mill."
EnterThenReach == " Then you enter the Old Mill. Soon you reach Great Hall."
DarknessThenReach == " Then you enter Darkness. Soon you reach the Old Mill."
DarknessThenStanding == " Then you enter Darkness. You are standing in Great Hall."

NarrativesGiven ==
    {"", ItemTail, LocationTail, FactTail, StandingThenEnter, EnterThenReach,
     DarknessThenReach, DarknessThenStanding}

TagOrNone(tag) == IF tag = NoTag THEN "" ELSE TagText(tag)

FullTextOf(g) == TagOrNone(g.first) \o TagOrNone(g.second) \o g.tail

KnownInn == [id |-> "inn", name |-> "Inn", description |-> "Warm", visitedAt |-> 0]

ApplyInit ==
    /\ Loaded /\ Unset
    /\ given \in [first : TagsApplied, second : TagsApplied, tail : NarrativesGiven,
                  known : BOOLEAN]
    /\ returned = <<>>

\* sendMessage after its loop, fullText being the text of the given parts;
\* returned holds the parse and the history of what processCommands was given
ApplyCalled ==
    /\ returned = <<>>
    /\ \E st \in {IF given.known THEN addLocation(store, KnownInn) ELSE store} :
       \E r \in {FinalProcessing(
                    [store |-> st, uuid |-> uuid,
                     gen |-> [NewGeneration("send", ui, st, now)
                                 EXCEPT !.fullText = FullTextOf(given)]], now)} :
          /\ store' = r.store
          /\ uuid' = r.uuid
          /\ returned' = <<[parsed |-> parseGameResponse(FullTextOf(given), now, uuid),
                            applied |-> r.gen.applied]>>
    /\ UNCHANGED <<given, decVars, ui, gens, unload, now, memVars>>

SpecApply == ApplyInit /\ [][ApplyCalled]_vars

-----------------------------------------------------------------------------
(* Claims about the decoder *)

WellFormed(span) == JsonParse(span).ok

Blank(span) == Trim(span) = ""

\* the transport carries well-formed messages only (white space may separate them)
AllWellFormed == \A n \in 1..Len(items) : WellFormed(items[n]) \/ Blank(items[n])

\* the parses of the well-formed messages of the transport, in transport order
RECURSIVE ParsedMessages(_)
ParsedMessages(ss) ==
    IF ss = <<>> THEN <<>>
    ELSE IF WellFormed(Head(ss))
         THEN <<JsonParse(Head(ss)).v>> \o ParsedMessages(Tail(ss))
         ELSE ParsedMessages(Tail(ss))

\* the offsets (1-based) of the characters of text that lie inside a string
\* literal, by JSON's lexical rules: a quote opens a literal, a backslash inside
\* one takes the next character with it, the next bare quote closes it
RECURSIVE LiteralPositions(_, _, _)
LiteralPositions(text, i, inside) ==
    IF i > Len(text) THEN {}
    ELSE IF ~inside
         THEN LiteralPositions(text, i + 1, Ch(text, i) = "\"")
         ELSE IF Ch(text, i) = "\\"
              THEN {i, i + 1} \cup LiteralPositions(text, i + 2, TRUE)
              ELSE IF Ch(text, i) = "\"" THEN LiteralPositions(text, i + 1, FALSE)
              ELSE {i} \cup LiteralPositions(text, i + 1, TRUE)

\* C1: a single well-formed message, however the transport fragments it, is
\* yielded exactly once and equals the parse of the unsplit text when the
\* generator finishes
C1_SingleMessageYieldedOnce ==
    (dpc = "finished" /\ Len(items) = 1 /\ WellFormed(sent))
        => yielded = <<JsonParse(sent).v>>

\* C2: a sequence of well-formed messages, however fragmented, is yielded
\* message by message, each exactly once, in transport order
C2_MessagesYieldedInOrder ==
    (dpc = "finished" /\ AllWellFormed /\ Len(ParsedMessages(items)) >= 2)
        => yielded = ParsedMessages(items)

\* C3: a brace inside a string literal of a message never changes the
\* bracket-depth counter, in any fragmentation
C3_BraceInStringInert ==
    AllWellFormed => dec.touched \cap LiteralPositions(sent, 1, FALSE) = {}

\* C4: malformed text on the stream (a balanced span that does not parse, a
\* truncated span, a stray closing brace) is skipped and every well-formed
\* message after it is still yielded
C4_MalformedSkipped ==
    (dpc = "finished" /\ ~AllWellFormed) => yielded = ParsedMessages(items)

-----------------------------------------------------------------------------
(* Claims about the generations of a session *)

Generations == 1..Len(gens)

Ended(gen) == gen.phase \in {"done", "failed", "cancelled"}

\* C5: the commands of a generation whose stream completes are those of the
\* parse of its full accumulated text, applied once, in the step that ends the
\* stream; until then no command is applied, and none after
C5_CommandsAppliedOnceAtEnd ==
    [][\A g \in Generations :
        /\ gens'[g].phase # "done" => gens'[g].applied = <<>>
        /\ gens[g].phase = "done" => gens'[g].applied = gens[g].applied
        /\ (gens[g].phase # "done" /\ gens'[g].phase = "done") =>
              gens'[g].applied =
                 IF Trim(gens'[g].fullText) = "" THEN <<>>
                 ELSE <<parseGameResponse(gens'[g].fullText, now,
                                          gens'[g].parsedFrom).commands>>]_vars

\* a generation completed whose text was re-parsed at least twice while it
\* streamed and whose final parse gave commands
C5_Witness ==
    \E g \in Generations :
        /\ gens[g].phase = "done"
        /\ Len(gens[g].shown) >= 2
        /\ Len(gens[g].applied) = 1
        /\ Len(gens[g].applied[1]) >= 2

\* C6: no two generations are in flight at once: whatever starts a
\* generation or switches the model has cancelled the one in flight
C6_OneGenerationInFlight ==
    \A g, h \in Generations :
        (g # h /\ InFlight(gens[g])) => ~InFlight(gens[h])

\* a generation was cancelled while it read its stream, and the generation
\* started after it is in flight with its signal not aborted
C6_Witness ==
    \E g, h \in Generations :
        /\ g < h
        /\ gens[g].phase = "cancelled" /\ gens[g].status = 200
        /\ InFlight(gens[h]) /\ gens[h].signal = "live"

\* C7: from the moment its signal is aborted a generation yields nothing,
\* shows nothing, applies no command, stores no continuation token and
\* reports no system message
C7_CancelledGenerationIsInert ==
    \A g \in Generations :
        gens[g].signal = "aborted" => gens[g].atAbort = <<Effects(gens[g])>>

\* a generation was cancelled after it had shown text, and the session went
\* on: a later generation completed and applied its commands
C7_Witness ==
    \E g, h \in Generations :
        /\ gens[g].phase = "cancelled"
        /\ Len(gens[g].shown) > 0
        /\ gens[h].phase = "done"
        /\ Len(gens[h].applied) = 1

TimeoutMs == 180000

\* C9: a streaming generation is in flight for no longer than the time bound
C9_StreamEndsWithinTimeBound ==
    \A g \in Generations : InFlight(gens[g]) => now - gens[g].startedAt <= TimeoutMs

IsPrefix(a, b) == Len(a) <= Len(b) /\ Substring(b, 0, Len(a)) = a

\* C10: of a completed generation every text shown while it streamed is a
\* prefix of the final clean text and no shorter than the text shown before it
C10_DisplayUpdatesArePrefixes ==
    \A g \in Generations :
        gens[g].phase = "done" =>
            \A k \in 1..Len(gens[g].shown) :
                /\ IsPrefix(gens[g].shown[k],
                            parseGameResponse(gens[g].fullText, 0, 1).cleanText)
                /\ k > 1 => Len(gens[g].shown[k - 1]) <= Len(gens[g].shown[k])

-----------------------------------------------------------------------------
(* The store's bounded collections *)

\* C11: after any mutation the chat log holds at most 50 messages, the
\* recent events at most 10 and the facts at most 20
C11_CollectionsCapped ==
    /\ Len(store.chatHistory) <= MAX_CHAT_HISTORY
    /\ Len(store.storyEvents) <= MaxStoryEvents
    /\ Len(store.storyFacts) <= MaxStoryFacts

\* a message was added to a full log: it is the last of 50, the oldest went
C11_Witness ==
    /\ last.op = "addMessage"
    /\ Len(store.chatHistory) = MAX_CHAT_HISTORY
    /\ store.chatHistory[MAX_CHAT_HISTORY] = last.arg
    /\ store.chatHistory[1] = SeedMessage(2)
    /\ Len(store.storyEvents) = MaxStoryEvents
    /\ Len(store.storyFacts) = MaxStoryFacts

\* the last n of xs, in their order
LastOf(xs, n) ==
    LET m == IF Len(xs) < n THEN Len(xs) ELSE n IN
    [i \in 1..m |-> xs[Len(xs) - m + i]]

\* C12: after n addMessage calls the chat log is the last min(n, 50) messages
\* appended, in their order, and the events are the last min(n, 10) added
C12_LogIsLastAppended ==
    /\ store.chatHistory = LastOf(appended, 50)
    /\ store.storyEvents = LastOf(recorded, 10)

\* 60 messages were appended and 50 are left, the 11th appended first; more
\* than 10 events were added
C12_Witness ==
    /\ Len(appended) = 60
    /\ Len(store.chatHistory) = 50
    /\ store.chatHistory[1] = appended[11]
    /\ store.chatHistory[50] = appended[60]
    /\ Len(recorded) = 12
    /\ store.storyEvents[1] = recorded[3]

-----------------------------------------------------------------------------
(* Fact eviction.  On a step that called addStoryFact, last'.arg is the fact *)
(* the call made (its id, text, importance and timestamp).                  *)

\* the step added a fact whose text was not known
FactAdded ==
    /\ last'.op = "addStoryFact"
    /\ \A k \in 1..Len(store.storyFacts) :
          ToLowerCase(store.storyFacts[k].fact) # ToLowerCase(last'.arg.fact)

\* and the store was at its cap
FactOverflows == FactAdded /\ Len(store.storyFacts) = MaxStoryFacts

\* the facts with the new one, those of them the step evicted, those it kept
FactsWithNew == Append(store.storyFacts, last'.arg)

EvictedFacts ==
    {f \in {FactsWithNew[k] : k \in 1..Len(FactsWithNew)} :
        \A k \in 1..Len(store'.storyFacts) : store'.storyFacts[k].id # f.id}

RetainedFacts == {store'.storyFacts[k] : k \in 1..Len(store'.storyFacts)}

\* critical outranks major, major outranks minor
Severity(f) ==
    CASE f.importance = "critical" -> 3
      [] f.importance = "major" -> 2
      [] f.importance = "minor" -> 1

\* C13: when a fact pushes the count above 20, exactly one fact is evicted:
\* the oldest of the least severe facts present, so that the most recent of
\* them survive
C13_OldestLeastSevereEvicted ==
    [][FactOverflows =>
          /\ Cardinality(EvictedFacts) = 1
          /\ \A e \in EvictedFacts :
                \A k \in 1..Len(FactsWithNew) :
                   /\ Severity(e) <= Severity(FactsWithNew[k])
                   /\ Severity(e) = Severity(FactsWithNew[k])
                         => e.timestamp <= FactsWithNew[k].timestamp]_vars

\* C14: after any addStoryFact every evicted fact is no more severe than any
\* retained fact
C14_NoSevereFactEvictedFirst ==
    [][FactAdded =>
          \A e \in EvictedFacts : \A r \in RetainedFacts :
             Severity(e) <= Severity(r)]_vars

\* a critical fact was added to a full store of mixed facts: it is retained,
\* with minor facts beside it, and a fact of the seed is gone
C14_Witness ==
    /\ last.op = "addStoryFact"
    /\ last.arg.importance = "critical"
    /\ Len(store.storyFacts) = MaxStoryFacts
    /\ \E k \in 1..Len(store.storyFacts) : store.storyFacts[k].id = last.arg.id
    /\ \E k \in 1..Len(store.storyFacts) : store.storyFacts[k].importance = "minor"
    /\ \E k \in 1..Len(store.storyFacts) : store.storyFacts[k].importance = "major"
    /\ ~\E k \in 1..Len(store.storyFacts) : store.storyFacts[k].fact = SeedFact(19)

-----------------------------------------------------------------------------
(* The continuation token *)

Absent(context) == context = JsonUndefined

\* C15: the stored token is absent or has fewer than 20000 elements, and
\* when a completed generation offered a token of 20000 elements or more
\* the stored token is absent
C15_OversizedTokenDropped ==
    [][/\ Absent(store'.contextVector) \/ Len(store'.contextVector.v) < 20000
       /\ (last'.op = "sendMessage" /\ last'.arg.offered >= 20000)
             => Absent(store'.contextVector)]_vars

\* C16: after trimChatHistory(maxMessages) the chat log is the most recent
\* maxMessages messages of the log before it, or the whole of a shorter
\* log, and the stored token is absent
C16_TrimClearsToken ==
    [][last'.op = "trimChatHistory" =>
          /\ Len(store'.chatHistory) <= last'.arg
          /\ \A i \in 1..Len(store'.chatHistory) :
                store'.chatHistory[i] =
                    store.chatHistory[Len(store.chatHistory) - Len(store'.chatHistory) + i]
          /\ Len(store'.chatHistory) = last'.arg
                \/ Len(store'.chatHistory) = Len(store.chatHistory)
          /\ Absent(store'.contextVector)]_vars

-----------------------------------------------------------------------------
(* Persistence *)

PersistedFields ==
    {"selectedModel", "systemPrompt", "chatHistory", "inventory", "locations",
     "currentLocationId", "npcs", "storyEvents", "storyFacts", "journal"}

\* C17: every write to storage carries the model, the prompt, the chat log,
\* the inventory, the locations, the current location id, the NPCs, the
\* events, the facts and the journal as the store holds them, and nothing
\* else: never the continuation token
C17_TokenNeverPersisted ==
    last.op # "none" =>
        /\ DOMAIN persisted = PersistedFields
        /\ \A field \in PersistedFields : persisted[field] = store[field]

\* a write was made while the store held a continuation token
C17_Witness ==
    /\ last.op = "sendMessage"
    /\ ~Absent(store.contextVector)
    /\ persisted.chatHistory = store.chatHistory
    /\ Len(persisted.chatHistory) >= 2

-----------------------------------------------------------------------------
(* Inventory, locations and NPCs *)

Known(records, id) == \E k \in 1..Len(records) : records[k].id = id

\* C18: the inventory never holds two records of one id, and an addItem of
\* an id the inventory holds adds its quantity to that record and adds no
\* record
C18_AddItemMerges ==
    [][/\ \A j, k \in 1..Len(store'.inventory) :
             store'.inventory[j].id = store'.inventory[k].id => j = k
       /\ (last'.op = "addItem" /\ Known(store.inventory, last'.arg.id)) =>
             /\ Len(store'.inventory) = Len(store.inventory)
             /\ \A k \in 1..Len(store.inventory) :
                   store'.inventory[k] =
                      IF store.inventory[k].id = last'.arg.id
                      THEN [store.inventory[k] EXCEPT
                              !.quantity = store.inventory[k].quantity + last'.arg.quantity]
                      ELSE store.inventory[k]]_vars

\* two sendMessage calls whose responses each carried [ITEM_ADD: Torch|A
\* torch|1] left one torch record, of quantity 2
C18_Witness ==
    /\ last.op = "sendMessage"
    /\ last.n = 2
    /\ Len(store.chatHistory) = 4
    /\ Len(store.inventory) = 1
    /\ store.inventory[1].id = "torch"
    /\ store.inventory[1].quantity = 2

\* C19: the current location is absent initially; addLocation of a new id
\* appends the location, addLocation of a known id leaves the locations as
\* they are, and both make the id current
C19_AddLocationSetsCurrent ==
    /\ store.currentLocationId = Null
    /\ [][last'.op = "addLocation" =>
             /\ store'.currentLocationId = last'.arg.id
             /\ store'.locations =
                   IF Known(store.locations, last'.arg.id) THEN store.locations
                   ELSE Append(store.locations, last'.arg)]_vars

\* the cave and then the inn were recorded, and the cave was recorded again
\* under another name: its first record is the one kept, the cave is current
C19_Witness ==
    /\ last.op = "addLocation"
    /\ last.arg.name = "The Cave"
    /\ Len(store.locations) = 2
    /\ store.locations[1].name = "Cave"
    /\ store.locations[2].id = "inn"
    /\ store.currentLocationId = "cave"

\* C20: addNpc of an id already recorded changes that NPC's
\* currentLocationId to the new value and nothing else
C20_AddNpcMovesKnownNpc ==
    [][(last'.op = "addNpc" /\ Known(store.npcs, last'.arg.id)) =>
          /\ Len(store'.npcs) = Len(store.npcs)
          /\ \A k \in 1..Len(store.npcs) :
                store'.npcs[k] =
                   IF store.npcs[k].id = last'.arg.id
                   THEN [store.npcs[k] EXCEPT
                           !.currentLocationId = last'.arg.currentLocationId]
                   ELSE store.npcs[k]
          /\ [store' EXCEPT !.npcs = store.npcs] = store]_vars

\* Bob, met in the cave, was added again as Robert at the inn: he is Bob as
\* first described, now at the inn, and Ann is as she was
C20_Witness ==
    /\ last.op = "addNpc"
    /\ last.arg.name = "Robert"
    /\ Len(store.npcs) = 2
    /\ store.npcs[1].name = "Bob"
    /\ store.npcs[1].description = "A guard"
    /\ store.npcs[1].firstMetAt # last.arg.firstMetAt
    /\ store.npcs[1].currentLocationId = "inn"
    /\ store.npcs[2].name = "Ann"

-----------------------------------------------------------------------------
(* Fact deduplication *)

\* the step called addStoryFact with a text the store knew, but for its case
FactKnown ==
    /\ last'.op = "addStoryFact"
    /\ \E k \in 1..Len(store.storyFacts) :
          ToLowerCase(store.storyFacts[k].fact) = ToLowerCase(last'.arg.fact)

\* the facts have as many texts, reduced to lower case, as they are
NoTwoFactsAlike ==
    Cardinality({ToLowerCase(store.storyFacts[k].fact) : k \in 1..Len(store.storyFacts)})
        = Len(store.storyFacts)

\* C21: adding a fact whose text equals an existing fact's text ignoring case
\* leaves the fact collection unchanged, so the collection never holds two
\* facts equal ignoring case
C21_DuplicateFactIgnored ==
    /\ NoTwoFactsAlike
    /\ [][/\ FactKnown => store'.storyFacts = store.storyFacts
          /\ NoTwoFactsAlike']_vars

\* "FACT NUMBER 2" was added to a store that holds "Fact number 2": the
\* store holds its twenty facts and not the new one
C21_Witness ==
    /\ last.op = "addStoryFact"
    /\ last.arg.fact = "FACT NUMBER 2"
    /\ Len(store.storyFacts) = MaxStoryFacts
    /\ \E k \in 1..Len(store.storyFacts) : store.storyFacts[k].fact = SeedFact(2)
    /\ \A k \in 1..Len(store.storyFacts) : store.storyFacts[k].fact # "FACT NUMBER 2"

-----------------------------------------------------------------------------
(* Claims about the parser.  A state of SpecParser in which the call has    *)
(* returned holds the text's parts in given and the result in returned.     *)

HasReturned == returned # <<>>

Result == returned[1]

\* the commands the fallbacks build carry the fallbacks' descriptions, which
\* no tag of TagsGiven carries
FromItemFallback(c) ==
    c.type = "ADD_ITEM" /\ c.payload.description = "Acquired during adventure"

FromLocationFallback(c) ==
    c.type = "SET_LOCATION" /\ c.payload.description = "Discovered location"

FromTag(c) ==
    /\ c.type \in {"ADD_ITEM", "SET_LOCATION", "ADD_NPC", "STORY_EVENT"}
    /\ ~FromItemFallback(c)
    /\ ~FromLocationFallback(c)

ItemFromTag(c) == c.type = "ADD_ITEM" /\ FromTag(c)

LocationFromTag(c) == c.type = "SET_LOCATION" /\ FromTag(c)

Some(cmds, Is(_)) == \E k \in 1..Len(cmds) : Is(cmds[k])

\* the command a tag of this keyword stands for, "none" for an unknown keyword
KindOf(tag) ==
    CASE ToLowerCase(tag.kw) \in {"item_add", "add_item"} -> "ADD_ITEM"
      [] ToLowerCase(tag.kw) = "location" -> "SET_LOCATION"
      [] ToLowerCase(tag.kw) = "npc" -> "ADD_NPC"
      [] ToLowerCase(tag.kw) = "event" -> "STORY_EVENT"
      [] OTHER -> "none"

AllDigits(s) == s # "" /\ \A i \in 1..Len(s) : Ch(s, i) \in Digits

\* a tag of a recognized keyword whose name field is blank
BlankName(tag) == KindOf(tag) # "none" /\ Trim(tag.fields[1]) = ""

\* a valid tag: a recognized keyword, a name, and for an item's third field
\* a number
ValidTag(tag) ==
    /\ KindOf(tag) # "none"
    /\ Trim(tag.fields[1]) # ""
    /\ KindOf(tag) = "ADD_ITEM" /\ Len(tag.fields) = 3 => AllDigits(Trim(tag.fields[3]))

TagCommands == SelectSeq(Result.commands, FromTag)

\* how many times the text holds its tag
Times == IF given.twice THEN 2 ELSE 1

\* C22: in one parse result the item fallback produces no AddItem command
\* when a tag produced one, and the location fallback no SetLocation command
\* when a tag produced one; each fallback is gated on its own category only:
\* it does produce its command from narrative its patterns match when no tag
\* of its category was taken, whatever the other category's tags
C22_FallbacksGatedPerCategory ==
    HasReturned =>
       /\ Some(Result.commands, ItemFromTag) => ~Some(Result.commands, FromItemFallback)
       /\ Some(Result.commands, LocationFromTag)
             => ~Some(Result.commands, FromLocationFallback)
       /\ given.tail \in {ItemTail, ItemTail \o LocationTail}
             /\ ~Some(Result.commands, ItemFromTag)
             => Some(Result.commands, FromItemFallback)
       /\ given.tail \in {LocationTail, ItemTail \o LocationTail}
             /\ ~Some(Result.commands, LocationFromTag)
             => Some(Result.commands, FromLocationFallback)

\* an item tag before narrative that both fallbacks match: the tag's item and
\* the narrative's location, not the narrative's item
C22_Witness ==
    /\ HasReturned
    /\ given.tag.kw = "ITEM_ADD" /\ given.tag.fields[1] = "Rusty Key" /\ ~given.twice
    /\ given.tail = ItemTail \o LocationTail
    /\ Len(Result.commands) = 2
    /\ Result.commands[1].payload.id = "rusty-key"
    /\ Result.commands[2].type = "SET_LOCATION"
    /\ Result.commands[2].payload.id = "old-mill"

\* C23: every valid tag in the text is removed from the returned text and
\* produces exactly one command, two tags two commands in the order of the
\* tags; the id of an item's, a location's and an NPC's command is the slug
\* of the tag's name field.
\* "[ITEM_ADD: Rusty Key|An old key|1] You grab it." gives the text
\* "You grab it." and one AddItem with id rusty-key and quantity 1, and an
\* item tag without a quantity field gives quantity 1
C23_ValidTagRemovedAndApplied ==
    /\ HasReturned /\ ValidTag(given.tag) =>
          /\ Result.cleanText = Trim(given.head \o given.tail)
          /\ Len(TagCommands) = Times
          /\ \A k \in 1..Len(TagCommands) :
                /\ TagCommands[k].type = KindOf(given.tag)
                /\ KindOf(given.tag) # "STORY_EVENT"
                      => TagCommands[k].payload.id = Slug(given.tag.fields[1])
                /\ KindOf(given.tag) = "STORY_EVENT"
                      => /\ TagCommands[k].payload.description = Trim(given.tag.fields[1])
                         /\ TagCommands[k].payload.id = uuid + k - 1
                /\ KindOf(given.tag) = "ADD_ITEM"
                      => TagCommands[k].payload.quantity =
                            IF Len(given.tag.fields) = 3
                            THEN ParseInt(Trim(given.tag.fields[3])) ELSE 1
    /\ HasReturned /\ TextOf(given) = "[ITEM_ADD: Rusty Key|An old key|1] You grab it." =>
          /\ Result.cleanText = "You grab it."
          /\ Len(Result.commands) = 1
          /\ Result.commands[1].type = "ADD_ITEM"
          /\ Result.commands[1].payload.id = "rusty-key"
          /\ Result.commands[1].payload.quantity = 1

\* the item tag without a quantity, twice in a text with narrative around it
C23_Witness ==
    /\ HasReturned
    /\ given.head = "Hi. " /\ given.tag.kw = "ADD_ITEM" /\ given.twice
    /\ given.tail = " You grab it."
    /\ Result.cleanText = "Hi.  You grab it."
    /\ Len(Result.commands) = 2
    /\ \A k \in 1..2 : /\ Result.commands[k].payload.id = "rope"
                        /\ Result.commands[k].payload.quantity = 1

\* C24 as stated: for every text that contains no valid tag, the parser
\* returns the text unchanged and an empty command list
C24_NoTagTextUnchanged ==
    HasReturned /\ ~ValidTag(given.tag) =>
       /\ Result.cleanText = TextOf(given)
       /\ Result.commands = <<>>

\* C24: for every text that contains no valid tag, the parser returns the
\* text trimmed of leading and trailing white space and no command of a tag:
\* the commands are those of the fallbacks and of the fact extraction, none
\* when the narrative matches none of their patterns
C24_NoTagTextTrimmed ==
    HasReturned /\ ~ValidTag(given.tag) =>
       /\ Result.cleanText = Trim(TextOf(given))
       /\ TagCommands = <<>>
       /\ given.tail \in {"", " You grab it."} => Result.commands = <<>>

\* a text with white space before a tag of an unknown keyword, and narrative
\* the item fallback matches
C24_Witness ==
    /\ HasReturned
    /\ given.head = "  " /\ given.tag.kw = "QUEST" /\ ~given.twice /\ given.tail = ItemTail
    /\ Result.cleanText = "[QUEST: Find it] You now have the sword."
    /\ Len(Result.commands) = 1
    /\ FromItemFallback(Result.commands[1])

\* C25: a tag of a recognized keyword whose name field is empty or
\* whitespace-only is left verbatim in the returned text and produces no
\* command
C25_BlankNameTagLeft ==
    HasReturned /\ BlankName(given.tag) =>
       /\ Cardinality({i \in 1..Len(Result.cleanText) :
                           Substring(Result.cleanText, i - 1, i - 1 + Len(TagText(given.tag)))
                              = TagText(given.tag)}) = Times
       /\ Result.cleanText = Trim(TextOf(given))
       /\ TagCommands = <<>>

\* a LOCATION tag with a blank name and a description, before narrative the
\* location fallback matches: the tag is in the text, the location is the
\* narrative's
C25_Witness ==
    /\ HasReturned
    /\ given.head = "" /\ given.tag.kw = "LOCATION" /\ BlankName(given.tag)
    /\ ~given.twice /\ given.tail = LocationTail
    /\ Result.cleanText = "[LOCATION:   |Dark] Then you enter the Old Mill."
    /\ Len(Result.commands) = 1
    /\ Result.commands[1].payload.id = "old-mill"

\* the text of a field with the quotes around it stripped
Unquoted(s) ==
    IF Len(s) >= 2 /\ Ch(s, 1) = "\"" /\ Ch(s, Len(s)) = "\""
    THEN Substring(s, 1, Len(s) - 1)
    ELSE s

\* the display name a tag names
DisplayName(tag) == Trim(Unquoted(Trim(tag.fields[1])))

\* C26: quotes surrounding a tag field are stripped before the command is
\* built, so two tags naming the same display name, one quoted and one
\* unquoted or differing only in case or surrounding whitespace, produce
\* commands with the same id: every tag naming Rusty Key gives the id
\* rusty-key
C26_QuotedNameSameId ==
    HasReturned /\ KindOf(given.tag) = "ADD_ITEM"
                /\ Slug(DisplayName(given.tag)) = "rusty-key" =>
       /\ Len(TagCommands) = Times
       /\ \A k \in 1..Len(TagCommands) :
             /\ TagCommands[k].payload.id = "rusty-key"
             /\ TagCommands[k].payload.name = DisplayName(given.tag)

-----------------------------------------------------------------------------
(* Failures of the transport *)

\* what the commands and the continuation token change
Memory(st) ==
    <<st.inventory, st.locations, st.currentLocationId, st.npcs,
      st.storyEvents, st.storyFacts, st.contextVector>>

\* the step is the one in which generation g fails: fetch rejected, the
\* status was not a success, or read() rejected in the middle of the stream
Fails(g) == gens[g].phase # "failed" /\ gens'[g].phase = "failed"

\* the chat log after one message more, by addMessage's cap
LogWith(log, message) == SliceLast(Append(log, message), MAX_CHAT_HISTORY)

\* C27: when a generation fails at the transport level, a system-role
\* message is appended to the chat log, no command is applied, and
\* inventory, locations, current location, NPCs, events, facts and the
\* continuation token are left unmodified, by the failure and by every step
\* of the generation before it
C27_TransportFailureLeavesMemory ==
    [][\A g \in Generations :
        /\ Fails(g) =>
              /\ \E message \in {store'.chatHistory[Len(store'.chatHistory)]} :
                    /\ message.role = "system"
                    /\ SubSeq(message.content, 1, 7) = "Error: "
                    /\ store'.chatHistory = LogWith(store.chatHistory, message)
              /\ gens'[g].applied = <<>>
              /\ Memory(store') = Memory(store)
        /\ InFlight(gens[g]) /\ InFlight(gens'[g]) => Memory(store') = Memory(store)]_vars

\* a generation completed and filled the memory, and the next one failed in
\* the middle of its stream, after it had shown text: the log ends with the
\* system message and the memory is the first generation's
C27_Witness ==
    \E g, h \in Generations :
        /\ gens[g].phase = "done" /\ Len(gens[g].applied) = 1
        /\ gens[h].phase = "failed" /\ gens[h].status = 200
        /\ Len(gens[h].shown) > 0
        /\ gens[h].applied = <<>>
        /\ Len(store.chatHistory) > 0
        /\ store.chatHistory[Len(store.chatHistory)].role = "system"
        /\ Len(store.inventory) > 0
        /\ Length(store.contextVector) > 0

-----------------------------------------------------------------------------
(* Claims about the context summary *)

AllInputsEmpty ==
    /\ given.location = <<>>
    /\ given.inventory = <<>> /\ given.npcs = <<>> /\ given.events = <<>>
    /\ given.facts = <<>>

\* no location, no item, no NPC, no event and no critical or major fact
NothingToRender ==
    /\ given.location = <<>>
    /\ given.inventory = <<>> /\ given.npcs = <<>> /\ given.events = <<>>
    /\ \A k \in 1..Len(given.facts) : given.facts[k].importance = "minor"

\* C28 as stated: buildContextSummary returns the empty string when all of
\* its inputs are empty, and a non-empty reminder string when any input is
\* non-empty
C28_SummaryEmptyIffInputsEmpty ==
    HasReturned => (Result = "" <=> AllInputsEmpty)

\* C28: buildContextSummary returns the empty string when all of its inputs
\* are empty, and also when its only input is facts of minor importance,
\* which it never renders; it returns a non-empty reminder string when there
\* is a current location, an item, an NPC, an event or a critical or major
\* fact
C28_SummaryEmptyIffNothingToRender ==
    HasReturned =>
       /\ Result = "" <=> NothingToRender
       /\ AllInputsEmpty => Result = ""
       /\ ~NothingToRender => SubSeq(Result, 1, 16) = "\n\n[STORY CONTEXT"

\* the only input is a fact of minor importance, and the summary is empty
C28_Witness ==
    /\ HasReturned
    /\ given.location = <<>> /\ given.inventory = <<>> /\ given.npcs = <<>>
    /\ given.events = <<>>
    /\ Len(given.facts) = 1 /\ given.facts[1].importance = "minor"
    /\ Result = ""

-----------------------------------------------------------------------------
(* Claims about detectMovementIntent *)

\* s begins with prefix
StartsWith(s, prefix) == RxAt(RxLit(prefix), s, FALSE, 0, 1).found

\* s contains part
Mentions(s, part) == RxExec(RxLit(part), s, FALSE, 0, 1).found

IsArrival(directive) == StartsWith(directive, "\n\n[ARRIVAL COMMAND")

IsMovement(directive) == StartsWith(directive, "\n\n[MOVEMENT COMMAND")

IsHomeTravel(directive) == StartsWith(directive, "\n\n[MOVEMENT TO HOME")

\* the directive tells the model to use the destination as the location
NamesDestination(directive, destination) ==
    /\ Mentions(directive, "INSIDE " \o destination)
    /\ Mentions(directive, "[LOCATION: " \o destination \o "|Description]")

\* the player speaks in the first person
FirstPerson == given.subject \in {"I ", "i ", "  I "}

\* phrases of arrival; the last one also holds "need to go", a movement phrase
ArrivalPhrases == {"arrive at", "get to", "enter", "arrive and need to go to"}

\* what holds of every input, whatever the destination is called
IntentOrder ==
    /\ FirstPerson /\ given.phrase \in ArrivalPhrases => IsArrival(Result)
    /\ given.subject = "We " /\ given.phrase = "arrive and need to go to"
          => IsMovement(Result)
    /\ InputOf(given) = "I go to the tavern" => IsMovement(Result)
    /\ InputOf(given) = "I look around" => Result = ""

\* C29 as stated: arrival patterns are tested before movement patterns, so an
\* input matching both yields the arrival directive; "I arrive at the tavern"
\* yields the arrival directive naming the destination "the tavern", "I go to
\* the tavern" the movement directive and "I look around" no directive
C29_ArrivalNamesTheTavern ==
    HasReturned =>
       /\ IntentOrder
       /\ InputOf(given) = "I arrive at the tavern"
             => IsArrival(Result) /\ NamesDestination(Result, "the tavern")

\* C29: arrival patterns are tested before movement patterns, so an input
\* matching both yields the arrival directive; "I arrive at the tavern"
\* yields the arrival directive naming the destination "tavern", without the
\* article, "I go to the tavern" the movement directive naming "tavern" and
\* "I look around" no directive
C29_ArrivalBeforeMovement ==
    HasReturned =>
       /\ IntentOrder
       /\ InputOf(given) = "I arrive at the tavern"
             => /\ IsArrival(Result)
                /\ NamesDestination(Result, "tavern")
                /\ ~Mentions(Result, "the tavern")
       /\ InputOf(given) = "I go to the tavern" => NamesDestination(Result, "tavern")

\* an input that matches an arrival pattern and a movement pattern has got
\* the arrival directive
C29_Witness ==
    /\ HasReturned
    /\ InputOf(given) = "I arrive and need to go to the tavern"
    /\ IsArrival(Result)

\* C30: an input that asks for travel to the player's own home or room, as
\* "I go to my home" or "I return to my room", yields the home-travel
\* directive and not the generic movement directive
C30_HomeTravelDirective ==
    HasReturned /\ FirstPerson /\ given.phrase \in {"go to", "return to"}
                /\ given.object \in {"my home", "my room"}
       => IsHomeTravel(Result) /\ ~IsMovement(Result)

-----------------------------------------------------------------------------
(* Termination of the decoder.  Rank is a natural number that every step of  *)
(* the generator lowers: the characters the transport still holds count      *)
(* first, then the position (a scan in progress ranks above the read that    *)
(* follows it), then the characters the scan has still to visit.             *)

\* what the scan loop has still to visit: buffer.length - i
Fuel == Len(dec.buffer) - dec.i

Rank ==
    IF dpc \notin {"reading", "scanning"} THEN 0
    ELSE (2 * Len(wire) + 1) * (Len(sent) + 2)
            + (IF dpc = "scanning" THEN 1 + Fuel ELSE 0)

\* the step that finishes the generator tries the final parse when the buffer
\* is not blank; a final parse that fails yields nothing and throws nothing
FinalParseQuiet ==
    dpc' = "finished" =>
       /\ dec'.finals = IF Blank(dec.buffer) THEN 0 ELSE 1
       /\ ~WellFormed(dec.buffer) => dec'.out = <<>> /\ ~dec'.threw /\ yielded' = yielded

\* the generator is reading, scanning or has finished; the final parse was
\* tried at most once, and only by the step that finished the generator
ScanSound ==
    /\ dpc \in {"reading", "scanning", "finished"}
    /\ dec.finals <= 1
    /\ dec.finals = 1 => dpc = "finished"
    /\ dpc = "scanning" => Fuel >= 0

\* C31: for every sequence of fragments followed by transport completion the
\* scan loop ends on each fragment (each turn leaves it less to visit) and
\* the generator finishes (each step lowers Rank, and a generator that has
\* not finished is reading or scanning, where a step is always possible),
\* after at most one final parse of the whole buffer; a final parse that
\* fails yields nothing and raises no error
C31_DecoderTerminates ==
    ScanSound /\ [][Rank' < Rank /\ ScanSound' /\ FinalParseQuiet]_vars

\* the generator has finished after a final parse that failed
C31_Witness ==
    /\ dpc = "finished"
    /\ sent # "" /\ gens = <<>>
    /\ dec.finals = 1 /\ ~WellFormed(dec.buffer)
    /\ dec.out = <<>>

-----------------------------------------------------------------------------
(* Claims about the commands of a completed generation.  A state of         *)
(* SpecApply in which the call has returned holds the parse of the text and *)
(* what processCommands was given in returned, and the store after it.      *)

Commands == Result.parsed.commands

IsSetLocation(c) == c.type = "SET_LOCATION"

\* a command the parser built from narrative: by a fallback or as a fact
FromNarrative(c) ==
    FromItemFallback(c) \/ FromLocationFallback(c) \/ c.type = "STORY_FACT"

\* the elements of xs outside seen, without the repetitions, in the order of
\* their first occurrence
RECURSIVE FirstOccurrences(_, _)
FirstOccurrences(xs, seen) ==
    IF xs = <<>> THEN <<>>
    ELSE IF Head(xs) \in seen THEN FirstOccurrences(Tail(xs), seen)
    ELSE <<Head(xs)>> \o FirstOccurrences(Tail(xs), seen \cup {Head(xs)})

Ids(xs) == [k \in 1..Len(xs) |-> xs[k].id]

PayloadNames(cmds) == [k \in 1..Len(cmds) |-> cmds[k].payload.name]

PayloadIds(cmds) == [k \in 1..Len(cmds) |-> cmds[k].payload.id]

\* the ids the store knew before the call
KnownBefore == IF given.known THEN <<"inn">> ELSE <<>>

\* C32: the commands of a completed generation are applied in the order the
\* parser returns them, the commands of tags before any command a fallback
\* built; afterwards the current location is the id of the last SetLocation
\* command in that order (and the locations and the inventory hold the new
\* records in the order of their commands)
C32_CommandsAppliedInOrder ==
    (HasReturned /\ Trim(FullTextOf(given)) # "") =>
       /\ Result.applied = <<Commands>>
       /\ \A i, j \in 1..Len(Commands) :
             (i < j /\ FromTag(Commands[j])) => ~FromNarrative(Commands[i])
       /\ \E locs \in {SelectSeq(Commands, IsSetLocation)} :
             /\ locs # <<>> => store.currentLocationId = locs[Len(locs)].payload.id
             /\ locs = <<>> =>
                   store.currentLocationId = (IF given.known THEN "inn" ELSE Null)
             /\ Ids(store.locations)
                   = FirstOccurrences(KnownBefore \o PayloadIds(locs), {})
       /\ Ids(store.inventory)
             = FirstOccurrences(PayloadIds(SelectSeq(Commands, LAMBDA c : c.type = "ADD_ITEM")),
                                {})

\* two location tags and narrative a fallback reads an item from: the Inn,
\* then the Dark Cave, then the sword, and the player is in the Dark Cave
C32_Witness ==
    /\ HasReturned
    /\ given.first.kw = "Location" /\ given.second.kw = "LOCATION"
    /\ given.tail = ItemTail
    /\ Len(Commands) = 3
    /\ FromItemFallback(Commands[3])
    /\ store.currentLocationId = "dark-cave"

\* the location commands the fallback built
FallbackLocations == SelectSeq(Commands, FromLocationFallback)

\* the text the fallbacks read: what the four replace passes left
CleanText == TagPasses(FullTextOf(given), 1)[Len(tagRegexes)].text

\* a name the fallback's filter lets through
PassesFilter(name) == Len(name) > 2 /\ ToLowerCase(name) \notin locationExcludeWords

\* the matches of every location pattern in text whose names pass the filter,
\* as [index, name]
LocationPhrases(text) ==
    { p \in UNION { { [index |-> ms[n].index, name |-> Trim(ms[n].caps[1].s)]
                        : n \in 1..Len(ms) }
                    : ms \in { RxMatchAll(locationPatterns[k], text, k = 3, 1, 1)
                               : k \in 1..Len(locationPatterns) } }
         : PassesFilter(p.name) }

\* the name of the first match of pattern k in text, if it has one
FirstName(text, k) ==
    LET m == RxExec(locationPatterns[k], text, k = 3, 1, 1) IN
    IF m.found THEN <<Trim(m.caps[1].s)>> ELSE <<>>

\* the name of the first match of the first pattern, in the order of the
\* pattern list, whose first match passes the filter
RECURSIVE ByPatternOrder(_, _)
ByPatternOrder(text, k) ==
    IF k > Len(locationPatterns) THEN <<>>
    ELSE IF FirstName(text, k) # <<>> /\ PassesFilter(FirstName(text, k)[1])
    THEN FirstName(text, k)
    ELSE ByPatternOrder(text, k + 1)

\* C33 as stated: the location fallback gives at most one SetLocation command
\* per parse, and the one it keeps is the first arrival phrase of the text,
\* in document order, among the matches of all its patterns
C33_FirstInDocumentOrder ==
    HasReturned =>
       /\ Len(FallbackLocations) <= 1
       /\ \A p \in LocationPhrases(CleanText) :
             FallbackLocations # <<>> /\ (\A q \in LocationPhrases(CleanText) :
                                             p.index <= q.index)
                => FallbackLocations[1].payload.name = p.name

\* C33: the location fallback gives at most one SetLocation command per
\* parse: that of the first pattern, in the order of the pattern list, whose
\* first match in the text has a name that passes the filter; a pattern's
\* later matches are not tried
C33_FirstInPatternOrder ==
    HasReturned =>
       /\ Len(FallbackLocations) <= 1
       /\ ~Some(Commands, LocationFromTag) =>
             PayloadNames(FallbackLocations) = ByPatternOrder(CleanText, 1)
       /\ given.tail = StandingThenEnter /\ FallbackLocations # <<>>
             => FallbackLocations[1].payload.name = "Old Mill"
       /\ given.tail = DarknessThenReach => FallbackLocations = <<>>

\* the text has an arrival phrase of the second pattern before one of the
\* first; the fallback kept the one of the first pattern
C33_Witness ==
    /\ HasReturned
    /\ given.tail = StandingThenEnter
    /\ Len(FallbackLocations) = 1
    /\ FallbackLocations[1].payload.name = "Old Mill"
    /\ \E p \in LocationPhrases(CleanText) : p.name = "Great Hall" /\ p.index < 20

-----------------------------------------------------------------------------
(* What the decoder yields *)

\* xs is ys with some elements left out: each element of xs is an element of
\* ys of its own, in the same order
RECURSIVE IsSubsequence(_, _)
IsSubsequence(xs, ys) ==
    IF xs = <<>> THEN TRUE
    ELSE IF ys = <<>> THEN FALSE
    ELSE IF Head(xs) = Head(ys) THEN IsSubsequence(Tail(xs), Tail(ys))
    ELSE IsSubsequence(xs, Tail(ys))

\* C34: every message generateResponseStream yields is the parse of a
\* complete top-level message of the transport: under every fragmentation the
\* messages yielded so far are messages of the transport, each yielded at
\* most once, in transport order; none is a span from inside a message
C34_YieldsAreTransportMessages ==
    AllWellFormed => IsSubsequence(yielded, ParsedMessages(items))

-----------------------------------------------------------------------------
(* The current location and the records of the locations *)

\* the current location id is absent or that of a record of the collection
CurrentLocationKnown(st) ==
    \/ st.currentLocationId = Null
    \/ \E k \in 1..Len(st.locations) : st.locations[k].id = st.currentLocationId

\* C35: in every reachable state of the store the current location id is
\* absent or equals the id of a record in the locations collection, after any
\* sequence of addLocation, setCurrentLocation, applyCommands and clearGame
C35_CurrentLocationIsRecorded == CurrentLocationKnown(store)

\* C35, as the code has it: every operation of the store but setCurrentLocation
\* keeps the current location id absent or that of a record; setCurrentLocation
\* stores the id it is given, recorded or not, and the lookup of the current
\* location answers null for an id that no record carries
C35_KnownButForSetter ==
    [][ /\ (CurrentLocationKnown(store) /\ last'.op # "setCurrentLocation")
            => CurrentLocationKnown(store')
        /\ last'.op = "setCurrentLocation"
            => /\ store' = [store EXCEPT !.currentLocationId = last'.arg]
               /\ ~CurrentLocationKnown(store') => getCurrentLocation(store') = <<>> ]_vars

C35_Witness ==
    /\ last.op = "setCurrentLocation" /\ last.n = 2
    /\ store.currentLocationId = "cave"
    /\ Len(store.locations) = 1 /\ store.locations[1].id = "inn"
    /\ ~CurrentLocationKnown(store)
    /\ getCurrentLocation(store) = <<>>

-----------------------------------------------------------------------------
(* The quantities of the inventory *)

\* C36: every inventory record has quantity at least 1 after any sequence of
\* parsed-and-applied AddItem commands and removeItem calls
C36_QuantityAtLeastOne ==
    \A k \in 1..Len(store.inventory) : store.inventory[k].quantity >= 1

-----------------------------------------------------------------------------
(* The placeholder of a streaming generation *)

LastEntry(st) == st.chatHistory[Len(st.chatHistory)]

\* the last chat-log entry is the assistant message generation g appended, with
\* the content g gave it last (none before its first updateLastMessage)
OwnsLastEntry(st, gen) ==
    /\ Len(st.chatHistory) > 0
    /\ LastEntry(st).role = "assistant"
    /\ LastEntry(st).timestamp = gen.startedAt
    /\ LastEntry(st).content = IF gen.shown = <<>> THEN "" ELSE gen.shown[Len(gen.shown)]

\* generation g called updateLastMessage in this step
Rewrites(g) == Len(gens'[g].shown) > Len(gens[g].shown) \/ gens'[g].parsedFrom # gens[g].parsedFrom

\* the step left every entry but the last of the old chat log alone, and of
\* the last it changed the content only
RewritesLastOnly ==
    LET n == Len(store.chatHistory) IN
    /\ Len(store'.chatHistory) >= n
    /\ \A k \in 1..(n - 1) : store'.chatHistory[k] = store.chatHistory[k]
    /\ store'.chatHistory[n] = [store.chatHistory[n] EXCEPT !.content = store'.chatHistory[n].content]

Streaming == {g \in Generations : InFlight(gens[g])}

PlaceholderOwned ==
    /\ Cardinality(Streaming) <= 1
    /\ \A g \in Streaming : OwnsLastEntry(store, gens[g])

\* C37: while a generation is streaming, the last chat-log entry is the
\* assistant placeholder the same generation appended, so every
\* updateLastMessage it performs rewrites only its own placeholder, under all
\* interleavings with abort, a new sendMessage, model switch, New Game and the
\* error path
C37_StreamsIntoOwnPlaceholder ==
    /\ PlaceholderOwned
    /\ [][ /\ PlaceholderOwned'
           /\ \A g \in Generations :
                 Rewrites(g) => /\ g \in Streaming
                                /\ OwnsLastEntry(store, gens[g])
                                /\ RewritesLastOnly ]_vars

C37_Witness ==
    /\ Len(gens) = 2
    /\ gens[1].phase = "cancelled" /\ gens[1].shown # <<>>
    /\ gens[2].phase = "reading" /\ Len(gens[2].shown) = 2
    /\ OwnsLastEntry(store, gens[2])
    /\ LastEntry(store).content # ""
    /\ Len(store.chatHistory) = 3

-----------------------------------------------------------------------------
(* The switch of the model *)

\* the step is the end of a model switch: unloadModel returned and the new
\* model was selected
SwitchFinishes == unload.pending /\ ~unload'.pending

\* C38: when a model switch (cancel the generation in flight, unload the old
\* model, select the new model) has finished, no generation is in flight
\* against the old model, a message sent while the unload was pending included
C38_NoGenerationOnOldModel ==
    [][ SwitchFinishes =>
            \A g \in 1..Len(gens') :
                InFlight(gens'[g]) => gens'[g].model # store.selectedModel ]_vars

-----------------------------------------------------------------------------
(* The continuation token of a completed generation *)

\* generation g completes in this step, its consumer returning true
Completes(g) == gens[g].phase = "reading" /\ gens'[g].phase = "done"

\* C39: after a generation completes without error and its final fragment
\* carried a continuation token under the ceiling, the stored continuation
\* token equals that token, also when the accumulated response text is empty
\* or white space only
C39_TokenOfCompletedGenerationStored ==
    [][ \A g \in Generations :
            ( /\ Completes(g)
              /\ Length(gens'[g].finalContext) \in 0..(ContextCeiling - 1) )
                => store'.contextVector = gens'[g].finalContext ]_vars

====
